---- MODULE Spec2Model ----
(***************************************************************************)
(* Model of the satellite-image-handler package: the affine-based          *)
(* (Sentinel) handler, the nearest-grid (Polymer, netCDF) handler and the  *)
(* two mask providers.                                                     *)
(*                                                                         *)
(* Coordinates are integers.  A projected coordinate is counted in units   *)
(* of 1/PixelSize of a pixel, so that a point has a fractional pixel       *)
(* position and int() truncation differs from rounding.  A pixel index is  *)
(* a pair <<row, col>>; a shape is a pair <<rows, cols>>.                  *)
(***************************************************************************)
EXTENDS Integers, Sequences, FiniteSets, TLC

\* Bounds of the model.
MaxRows == 2
MaxCols == 2
MaxTransforms == 2
PixelSize == 3

VARIABLES
    family,                        \* "none", "sentinel", "polymer", "failed"
    affine_matrix,                 \* self._affine_matrix, <<a, b, c, d, e, f>>
    before_transform_image_shape,  \* self._before_transform_image_shape
    transformation_list,           \* what _image_transformation_list() returns
    region,                        \* the estuary whose polygon the crop uses
    final_shape,                   \* shape of the bands of _subset_transformed_data_dict
    lon,                           \* self.lon, the final longitude grid (netCDF family)
    lat,                           \* self.lat, the final latitude grid (netCDF family)
    bridge_points_handler,         \* [attached, points_list]
    clean_water_mask_handler,      \* [attached, water_mask]
    crs,                           \* self._crs, the raster's own CRS (Sentinel)
    pc,                            \* the position inside __init__, <<where, i>>
    source,                        \* the variables / files of the product read
    loaded_data_dict,              \* __init__'s loaded_data_dict
    transformed_data_dict,         \* __init__'s transformed_data_dict
    subset_transformed_data_dict,  \* self._subset_transformed_data_dict
    transformed_lon,               \* self._transformed_lon, [held, band]
    transformed_lat,               \* self._transformed_lat, [held, band]
    polygon_indices,               \* what the crop's resolver returned last
    instances,                     \* several handler instances, by number
    shared,                        \* the objects reachable from all of them
    created,                       \* the providers as their __init__ left them
    op,                            \* the last operation called on the handler
    args,                          \* its two numeric arguments
    status,                        \* "none", "ok", "error", "absent"
    out,                           \* the pair it returned
    out_mask,                      \* the mask it returned
    calls                          \* the index maps it applied, in order

\* The inside of __init__: its position, what it reads, its local
\* dictionaries and the attributes it sets on the way.
build_vars == <<pc, source, loaded_data_dict, transformed_data_dict,
                subset_transformed_data_dict, transformed_lon, transformed_lat,
                polygon_indices>>

\* Several handlers side by side, and the objects they share.
fleet_vars == <<instances, shared, created>>

\* The handler and the two providers it holds.
handler_vars == <<family, affine_matrix, before_transform_image_shape,
                  transformation_list, region, final_shape, lon, lat,
                  bridge_points_handler, clean_water_mask_handler, crs,
                  build_vars, fleet_vars>>

\* The last call and its result.
call_vars == <<op, args, status, out, out_mask, calls>>

vars == <<handler_vars, call_vars>>

Abs(n) == IF n < 0 THEN -n ELSE n

Min(S) == CHOOSE m \in S : \A x \in S : m <= x

Max(S) == CHOOSE m \in S : \A x \in S : x <= m

\* Python's int() of the quotient n/d: truncation toward zero.
Trunc(n, d) ==
    LET q == Abs(n) \div Abs(d)
    IN  IF (n < 0) # (d < 0) THEN -q ELSE q

\* The raster shapes of the loaded bands.
Shapes == (1..MaxRows) \X (1..MaxCols)

\* The georeferencing matrices of the rasters: north-up, square pixels, with
\* the upper-left corner of pixel (0, 0) two pixels east of longitude 0 and
\* the lower edge of the raster one pixel north of latitude 0.
AffineMatrices(shape) ==
    { <<PixelSize, 0, 500 + 2 * PixelSize,
        0, -PixelSize, 1000 + PixelSize * (shape[1] + 1)>> }

\* Longitudes and latitudes a caller asks about: the raster and a margin of
\* one pixel around it.
Longitudes == 0 .. (PixelSize * (MaxCols + 3))

Latitudes == 0 .. (PixelSize * (MaxRows + 2))

\* pyproj's EPSG:4326 -> EPSG:32620 transform, abstracted to an invertible
\* map that is not the identity.
project_epsg4326_to_epsg_32620(longitude, latitude) ==
    <<longitude + 500, latitude + 1000>>

project_epsg_32620_to_epsg4326(x, y) ==
    <<x - 500, y - 1000>>

\* index_function: inverse affine, then int() of each coordinate.
index_function(M, x, y) ==
    LET det    == M[1] * M[5] - M[2] * M[4]
        colNum == M[5] * (x - M[3]) - M[2] * (y - M[6])
        rowNum == M[1] * (y - M[6]) - M[4] * (x - M[3])
    IN  <<Trunc(rowNum, det), Trunc(colNum, det)>>

\* inverse_index_function: (col, row) * affine.
inverse_index_function(M, row_index, col_index) ==
    <<M[1] * col_index + M[2] * row_index + M[3],
      M[4] * col_index + M[5] * row_index + M[6]>>

(***************************************************************************)
(* Transformations (utils/image_transformation.py).                        *)
(***************************************************************************)

\* The rotation angles of the model, multiples of 90 degrees; a positive
\* angle is counter-clockwise.
Angles == {-90, 180}

\* RotateImage(angle, shape).apply_transformation_to_geocoordinates
RotateImage_forward(t, idx) ==
    LET R == t.shape[1]  C == t.shape[2]  r == idx[1]  c == idx[2]
    IN  CASE t.angle = -90 -> <<c, R - 1 - r>>
          [] t.angle = 90  -> <<C - 1 - c, r>>
          [] t.angle = 180 -> <<R - 1 - r, C - 1 - c>>

\* RotateImage(angle, shape).apply_inverse_transformation_to_geocoordinate
RotateImage_inverse(t, idx) ==
    LET R == t.shape[1]  C == t.shape[2]  r == idx[1]  c == idx[2]
    IN  CASE t.angle = -90 -> <<R - 1 - c, r>>
          [] t.angle = 90  -> <<c, C - 1 - r>>
          [] t.angle = 180 -> <<R - 1 - r, C - 1 - c>>

\* The shape of a band after RotateImage(angle, shape).
RotateImage_shape(t) ==
    IF t.angle = 180 THEN t.shape ELSE <<t.shape[2], t.shape[1]>>

\* _image_transformation_list(): one RotateImage per configured angle, each
\* built for the shape of the band it receives.
RECURSIVE image_transformation_list(_, _)
image_transformation_list(angles, shape) ==
    IF angles = <<>> THEN <<>>
    ELSE LET t == [angle |-> Head(angles), shape |-> shape]
         IN  <<t>> \o image_transformation_list(Tail(angles), RotateImage_shape(t))

\* The shape of a band after the whole list.
TransformedShape(tl, shape) ==
    IF tl = <<>> THEN shape ELSE RotateImage_shape(tl[Len(tl)])

\* The named regions.  "general" has no polygon (IdentityPolygoneBoundariesImage).
Regions == {"general", "cocagne", "dunk"}

\* config/polygon_dict.py: the vertices (longitude, latitude) of each region.
POLYGON_DICT ==
    [reg \in Regions \ {"general"} |->
        CASE reg = "cocagne" -> << <<10, 4>>, <<11, 4>>, <<11, 5>> >>
          [] reg = "dunk"    -> << <<1, 1>>, <<8, 1>>, <<8, 5>>, <<1, 5>> >>]

Clamp(v, lo, hi) == IF v < lo THEN lo ELSE IF v > hi THEN hi ELSE v

\* PolygoneBoundariesImage(polygon, resolver): the bounding box of the
\* vertices' indices, clamped to the band's extent.  indices is the sequence
\* of the resolver's results for the vertices, shape the band's shape.
PolygoneBoundariesImage(indices, shape) ==
    LET rows == { indices[i][1] : i \in DOMAIN indices }
        cols == { indices[i][2] : i \in DOMAIN indices }
    IN  [row_min |-> Clamp(Min(rows), 0, shape[1] - 1),
         row_max |-> Clamp(Max(rows), 0, shape[1] - 1),
         col_min |-> Clamp(Min(cols), 0, shape[2] - 1),
         col_max |-> Clamp(Max(cols), 0, shape[2] - 1),
         empty   |-> \/ Max(rows) < 0 \/ Min(rows) > shape[1] - 1
                     \/ Max(cols) < 0 \/ Min(cols) > shape[2] - 1]

\* IdentityPolygoneBoundariesImage(): the bounding box is the full extent.
IdentityPolygoneBoundariesImage(shape) ==
    [row_min |-> 0, row_max |-> shape[1] - 1,
     col_min |-> 0, col_max |-> shape[2] - 1, empty |-> FALSE]

\* PolygoneBoundariesImage.apply_transformation_to_geocoordinates
Crop_forward(crop, idx) == <<idx[1] - crop.row_min, idx[2] - crop.col_min>>

\* PolygoneBoundariesImage.apply_inverse_transformation_to_geocoordinate
Crop_inverse(crop, idx) == <<idx[1] + crop.row_min, idx[2] + crop.col_min>>

\* The shape of a band after the crop.
Crop_shape(crop) ==
    <<crop.row_max - crop.row_min + 1, crop.col_max - crop.col_min + 1>>

(***************************************************************************)
(* AbstractSentinelImageHandler.                                           *)
(***************************************************************************)

\* The loop "for transformation in self._image_transformation_list()" of
\* _get_row_col_index_after_transformation_from_longitide_latitude, from
\* position i on.  st is [idx, calls]: the index so far and the maps applied.
RECURSIVE ForwardLoop(_, _, _)
ForwardLoop(tl, i, st) ==
    IF i > Len(tl) THEN st
    ELSE ForwardLoop(tl, i + 1,
            [idx   |-> RotateImage_forward(tl[i], st.idx),
             calls |-> Append(st.calls, <<"map_index_forward", i>>)])

\* A variant of the resolver that stops after index_function, before the
\* loop over the transformation list.
Sentinel_index_before_transformation(M, tl, longitude, latitude) ==
    LET p  == project_epsg4326_to_epsg_32620(longitude, latitude)
        rc == index_function(M, p[1], p[2])
    IN  [idx |-> rc, calls |-> << <<"index_function", 0>> >>]

\* _get_row_col_index_after_transformation_from_longitide_latitude
Sentinel_index_after_transformation(M, tl, longitude, latitude) ==
    LET p  == project_epsg4326_to_epsg_32620(longitude, latitude)
        rc == index_function(M, p[1], p[2])
    IN  ForwardLoop(tl, 1, [idx |-> rc, calls |-> << <<"index_function", 0>> >>])

\* _image_wkt_polygone_subset() of the Sentinel handlers.
Sentinel_image_wkt_polygone_subset(M, tl, shape, reg) ==
    IF reg = "general"
    THEN IdentityPolygoneBoundariesImage(TransformedShape(tl, shape))
    ELSE PolygoneBoundariesImage(
            [i \in DOMAIN POLYGON_DICT[reg] |->
                Sentinel_index_after_transformation(
                    M, tl, POLYGON_DICT[reg][i][1], POLYGON_DICT[reg][i][2]).idx],
            TransformedShape(tl, shape))

\* A variant of get_row_col_index_from_longitide_latitude that applies the
\* crop's forward map to the raw index, before the list.
Sentinel_get_row_col_index_crop_first(M, tl, crop, longitude, latitude) ==
    LET p  == project_epsg4326_to_epsg_32620(longitude, latitude)
        rc == index_function(M, p[1], p[2])
    IN  ForwardLoop(tl, 1, [idx   |-> Crop_forward(crop, rc),
                            calls |-> << <<"index_function", 0>>,
                                         <<"crop_forward", 0>> >>])

\* A variant of get_row_col_index_from_longitide_latitude that returns the
\* index after the list, without the crop's forward map.
Sentinel_get_row_col_index_without_crop(M, tl, crop, longitude, latitude) ==
    Sentinel_index_after_transformation(M, tl, longitude, latitude)

\* get_row_col_index_from_longitide_latitude
Sentinel_get_row_col_index(M, tl, crop, longitude, latitude) ==
    LET st == Sentinel_index_after_transformation(M, tl, longitude, latitude)
    IN  [idx   |-> Crop_forward(crop, st.idx),
         calls |-> Append(st.calls, <<"crop_forward", 0>>)]

\* The loop "for transformation in self._image_transformation_list()" of
\* get_longitude_latitude_from_row_col_index, from position i on.
RECURSIVE InverseLoop(_, _, _)
InverseLoop(tl, i, st) ==
    IF i > Len(tl) THEN st
    ELSE InverseLoop(tl, i + 1,
            [idx   |-> RotateImage_inverse(tl[i], st.idx),
             calls |-> Append(st.calls, <<"map_index_inverse", i>>)])

\* A variant of the inverse chain that applies the crop's inverse map last,
\* after the list.
Sentinel_raw_index_crop_last(tl, crop, row_index, col_index) ==
    LET st == InverseLoop(tl, 1, [idx |-> <<row_index, col_index>>, calls |-> <<>>])
    IN  [idx   |-> Crop_inverse(crop, st.idx),
         calls |-> Append(st.calls, <<"crop_inverse", 0>>)]

\* The raw index get_longitude_latitude_from_row_col_index hands to
\* inverse_index_function.
Sentinel_raw_index(tl, crop, row_index, col_index) ==
    InverseLoop(tl, 1, [idx   |-> Crop_inverse(crop, <<row_index, col_index>>),
                        calls |-> << <<"crop_inverse", 0>> >>])

\* get_longitude_latitude_from_row_col_index
Sentinel_get_longitude_latitude(M, tl, crop, row_index, col_index) ==
    LET st == Sentinel_raw_index(tl, crop, row_index, col_index)
        p  == inverse_index_function(M, st.idx[1], st.idx[2])
    IN  [lonlat |-> project_epsg_32620_to_epsg4326(p[1], p[2]),
         calls  |-> Append(st.calls, <<"inverse_index_function", 0>>)]

\* The crop of the constructed Sentinel handler: _image_wkt_polygone_subset()
\* builds it again at every call.
crop_now ==
    Sentinel_image_wkt_polygone_subset(
        affine_matrix, transformation_list, before_transform_image_shape, region)

(***************************************************************************)
(* Mask providers.                                                         *)
(***************************************************************************)

\* The pixel indices of a band of the given shape.
Cells(shape) == (0 .. shape[1] - 1) \X (0 .. shape[2] - 1)

\* No mask: the result of a call that returned None or raised.
NoMask == [cell \in {} |-> TRUE]

\* numpy's index wrap: a negative index counts from the end.
Wrap(v, n) == IF v < 0 THEN v + n ELSE v

\* BridgePointsHandler.get_valid_points_mask(shape).  points_list[:, 0] raises
\* IndexError on an empty list (a 1-D array), and the assignment raises
\* IndexError on an index outside [-n, n).
BridgePointsHandler_get_valid_points_mask(points_list, shape) ==
    IF points_list = <<>>
    THEN [ok |-> FALSE, mask |-> NoMask]
    ELSE IF \E i \in DOMAIN points_list :
               \/ points_list[i][1] < -shape[1] \/ points_list[i][1] >= shape[1]
               \/ points_list[i][2] < -shape[2] \/ points_list[i][2] >= shape[2]
    THEN [ok |-> FALSE, mask |-> NoMask]
    ELSE [ok   |-> TRUE,
          mask |-> [cell \in Cells(shape) |->
                      ~ \E i \in DOMAIN points_list :
                            /\ Wrap(points_list[i][1], shape[1]) = cell[1]
                            /\ Wrap(points_list[i][2], shape[2]) = cell[2]]]

\* CleanWaterMaskHandler.get_valid_points_mask()
CleanWaterMaskHandler_get_valid_points_mask(water_mask) ==
    [cell \in DOMAIN water_mask |-> ~ water_mask[cell]]

\* get_mask_from_bridge_points_handler (both families)
get_mask_from_bridge_points_handler(bridge, shape) ==
    IF bridge.attached
    THEN LET r == BridgePointsHandler_get_valid_points_mask(bridge.points_list, shape)
         IN  [status |-> IF r.ok THEN "ok" ELSE "error", mask |-> r.mask]
    ELSE [status |-> "absent", mask |-> NoMask]

\* A variant of the composed mask without the negation of the bad-water
\* provider's mask.
get_water_mask_without_negation(bridge, clean, shape) ==
    IF bridge.attached /\ clean.attached
    THEN LET b == BridgePointsHandler_get_valid_points_mask(bridge.points_list, shape)
             w == CleanWaterMaskHandler_get_valid_points_mask(clean.water_mask)
         IN  IF b.ok
             THEN [status |-> "ok",
                   mask   |-> [cell \in Cells(shape) |-> b.mask[cell] /\ w[cell]]]
             ELSE [status |-> "error", mask |-> NoMask]
    ELSE [status |-> "absent", mask |-> NoMask]

\* A variant of the composed mask that falls back to the obstruction
\* provider's mask when the bad-water provider is not attached.
get_water_mask_single_provider(bridge, clean, shape) ==
    IF bridge.attached
    THEN LET b == BridgePointsHandler_get_valid_points_mask(bridge.points_list, shape)
         IN  IF ~ b.ok
             THEN [status |-> "error", mask |-> NoMask]
             ELSE IF clean.attached
             THEN [status |-> "ok",
                   mask   |-> [cell \in Cells(shape) |->
                                 b.mask[cell] /\ clean.water_mask[cell]]]
             ELSE [status |-> "ok", mask |-> b.mask]
    ELSE [status |-> "absent", mask |-> NoMask]

\* get_water_mask_from_bridge_and_clean_water_mask_handler
get_water_mask_from_bridge_and_clean_water_mask_handler(bridge, clean, shape) ==
    IF bridge.attached /\ clean.attached
    THEN LET b == BridgePointsHandler_get_valid_points_mask(bridge.points_list, shape)
             w == CleanWaterMaskHandler_get_valid_points_mask(clean.water_mask)
         IN  IF b.ok
             THEN [status |-> "ok",
                   mask   |-> [cell \in Cells(shape) |-> b.mask[cell] /\ ~ w[cell]]]
             ELSE [status |-> "error", mask |-> NoMask]
    ELSE [status |-> "absent", mask |-> NoMask]

NoBridge == [attached |-> FALSE, points_list |-> <<>>]

NoCleanWater == [attached |-> FALSE, water_mask |-> NoMask]

\* The points of the obstruction lists of the model: inside the band, on its
\* edge, just outside, and negative.
BridgePoints(shape) ==
    {-shape[1] - 1, -1, 0, shape[1] - 1, shape[1]}
        \X {-shape[2] - 1, -1, 0, shape[2] - 1, shape[2]}

\* The obstruction providers of the model for a band of the given shape.
BridgeHandlers(shape) ==
    { [attached |-> TRUE, points_list |-> pl] :
        pl \in {<<>>} \cup { <<p>> : p \in BridgePoints(shape) }
                      \cup { << <<0, 0>>, <<r, r>> >> : r \in {-1, 0, 1} } }

\* The bad-water providers of the model: a mask of the band's shape that is
\* uniform, or uniform but for one pixel.
CleanWaterHandlers(shape) ==
    { [attached |-> TRUE, water_mask |-> [cell \in Cells(shape) |-> v]] :
        v \in BOOLEAN }
    \cup
    { [attached |-> TRUE,
       water_mask |-> [cell \in Cells(shape) |-> IF cell = one THEN v ELSE ~v]] :
        one \in Cells(shape), v \in BOOLEAN }

(***************************************************************************)
(* AbstractPolymerImageHandler.                                            *)
(***************************************************************************)

\* numpy's nan, as a value no coordinate and no distance takes.
NaN == -999999

\* (q - v) ** 2 in floating point.
SqDiff(q, v) == IF v = NaN THEN NaN ELSE (q - v) * (q - v)

\* a + b in floating point.
FAdd(a, b) == IF a = NaN \/ b = NaN THEN NaN ELSE a + b

\* The pixel indices of a band in row-major order, the order of numpy.where.
RowMajor(shape) ==
    [k \in 1 .. (shape[1] * shape[2]) |->
        <<(k - 1) \div shape[2], (k - 1) % shape[2]>>]

\* A variant of the nearest-grid search that falls back to index (0, 0)
\* when no cell equals the minimum, or when the grid has no cell.
nearest_grid_index_or_origin(nc_lon, nc_lat, shape, longitude, latitude) ==
    LET cells == Cells(shape)
        diff  == [cell \in cells |->
                    FAdd(SqDiff(longitude, nc_lon[cell]),
                         SqDiff(latitude, nc_lat[cell]))]
        valid == { cell \in cells : diff[cell] # NaN }
        Equal(cell) == /\ diff[cell] # NaN
                       /\ diff[cell] = Min({ diff[c] : c \in valid })
        where == SelectSeq(RowMajor(shape), Equal)
    IN  IF where = <<>>
        THEN [ok |-> TRUE, idx |-> <<0, 0>>]
        ELSE [ok |-> TRUE, idx |-> Head(where)]

\* The body shared by get_row_col_index_from_longitide_latitude and
\* _get_row_col_index_after_transformation_from_longitide_latitude: the first
\* index, in numpy.where's order, where diff == diff.min().  diff.min()
\* raises on an empty array and is nan when any element is nan; nothing
\* equals nan, so x[0] raises then.
nearest_grid_index(nc_lon, nc_lat, shape, longitude, latitude) ==
    LET cells == Cells(shape)
        diff  == [cell \in cells |->
                    FAdd(SqDiff(longitude, nc_lon[cell]),
                         SqDiff(latitude, nc_lat[cell]))]
    IN  IF cells = {}
        THEN [ok |-> FALSE, idx |-> <<0, 0>>]
        ELSE LET diff_min == IF \E cell \in cells : diff[cell] = NaN
                             THEN NaN
                             ELSE Min({ diff[cell] : cell \in cells })
                 Equal(cell) == /\ diff_min # NaN
                                /\ diff[cell] # NaN
                                /\ diff[cell] = diff_min
                 where == SelectSeq(RowMajor(shape), Equal)
             IN  IF where = <<>>
                 THEN [ok |-> FALSE, idx |-> <<0, 0>>]
                 ELSE [ok |-> TRUE, idx |-> Head(where)]

\* RotateImage(angle, shape).apply_transformation_to_band
RotateImage_band(t, band) ==
    [cell \in Cells(RotateImage_shape(t)) |-> band[RotateImage_inverse(t, cell)]]

\* _apply_image_transformation_list, for one band.
RECURSIVE apply_image_transformation_list(_, _)
apply_image_transformation_list(tl, band) ==
    IF tl = <<>> THEN band
    ELSE apply_image_transformation_list(Tail(tl), RotateImage_band(Head(tl), band))

\* PolygoneBoundariesImage.apply_transformation_to_band
Crop_band(crop, band) ==
    [cell \in Cells(Crop_shape(crop)) |-> band[Crop_inverse(crop, cell)]]

\* _image_wkt_polygone_subset() of the Polymer handlers, during construction:
\* the vertices are resolved on the transformed grids.
Polymer_image_wkt_polygone_subset(t_lon, t_lat, t_shape, reg) ==
    IF reg = "general"
    THEN [ok |-> TRUE, crop |-> IdentityPolygoneBoundariesImage(t_shape)]
    ELSE LET found == [i \in DOMAIN POLYGON_DICT[reg] |->
                         nearest_grid_index(t_lon, t_lat, t_shape,
                             POLYGON_DICT[reg][i][1], POLYGON_DICT[reg][i][2])]
         IN  IF \E i \in DOMAIN found : ~ found[i].ok
             THEN [ok |-> FALSE, crop |-> IdentityPolygoneBoundariesImage(t_shape)]
             ELSE [ok   |-> TRUE,
                   crop |-> PolygoneBoundariesImage(
                               [i \in DOMAIN found |-> found[i].idx], t_shape)]

\* The spacing of the loaded longitude/latitude grids.
GridStep == 2 * PixelSize

\* What may be wrong with one cell of a loaded grid.
Defects == {"none", "nan", "dup", "allnan"}

\* The loaded "lon" band: a regular grid, with one cell that is nan or
\* repeats the coordinates of cell (0, 0), or with every cell nan.
LoadedLon(shape, defect, at) ==
    [cell \in Cells(shape) |->
        CASE defect = "allnan" -> NaN
          [] defect = "nan" /\ cell = at -> NaN
          [] defect = "dup" /\ cell = at -> PixelSize
          [] OTHER -> PixelSize + GridStep * cell[2]]

\* The loaded "lat" band.
LoadedLat(shape, defect, at) ==
    [cell \in Cells(shape) |->
        CASE defect = "allnan" -> NaN
          [] defect = "nan" /\ cell = at -> NaN
          [] defect = "dup" /\ cell = at -> PixelSize + GridStep * (shape[1] - 1)
          [] OTHER -> PixelSize + GridStep * (shape[1] - 1 - cell[1])]

\* The longitudes and latitudes a caller asks the netCDF family about: the
\* grid points, the midpoints between them, and a margin.
GridLongitudes == { PixelSize * k : k \in 0 .. (2 * MaxCols + 1) }

GridLatitudes == { PixelSize * k : k \in 0 .. (2 * MaxRows + 1) }

NoGrid == [cell \in {} |-> 0]

\* The shapes of the loaded longitude/latitude grids: those of the rasters,
\* and a grid without cells.
PolymerShapes == Shapes \cup {<<0, 0>>}

AngleLists == UNION { [1..n -> Angles] : n \in 0..MaxTransforms }

\* The CRS a raster can carry: the zone the projections assume, and the
\* zone next to it.
CrsCodes == {"EPSG:32620", "EPSG:32619"}

\* A dictionary without entries.
NoDict == [band_name \in {} |-> NoGrid]

\* An attribute that is not set (never assigned, or deleted).
NotHeld == [held |-> FALSE, band |-> NoGrid]

\* Outside __init__: no dictionary, no transformed grid.
BuildAtRest ==
    /\ pc = <<"idle", 0>>
    /\ source = [kind |-> "none", variables |-> NoDict]
    /\ loaded_data_dict = NoDict
    /\ transformed_data_dict = NoDict
    /\ subset_transformed_data_dict = NoDict
    /\ transformed_lon = NotHeld
    /\ transformed_lat = NotHeld
    /\ polygon_indices = <<>>

\* AbstractPolymerImageHandler.BAND_NAME_MAPPING, in the dictionary's order.
Polymer_BAND_NAME_MAPPING ==
    << [band_name |-> "blue_band",  codes |-> <<"Rw490">>],
       [band_name |-> "green_band", codes |-> <<"Rw560">>],
       [band_name |-> "red_band",   codes |-> <<"Rw665">>],
       [band_name |-> "nir_band",   codes |-> <<"Rw842">>],
       [band_name |-> "swir_band",  codes |-> <<"Rnir">>],
       [band_name |-> "lon",        codes |-> <<"longitude">>],
       [band_name |-> "lat",        codes |-> <<"latitude">>] >>

\* The handler instances that live side by side.
Instances == {1, 2}

\* An instance before its __init__ has run.  bridge_points_handler and
\* clean_water_mask_handler are references: "shared" to the provider passed
\* to the constructor, "None" when none was passed.
NotConstructed ==
    [pc                           |-> "new",
     before_transform_image_shape |-> <<1, 1>>,
     transformation_list          |-> <<>>,
     region                       |-> "general",
     bridge_points_handler        |-> "None",
     clean_water_mask_handler     |-> "None",
     loaded_data_dict             |-> NoDict,
     transformed_data_dict        |-> NoDict,
     subset_transformed_data_dict |-> NoDict,
     op                           |-> "none",
     args                         |-> <<0, 0>>,
     status                       |-> "none",
     out                          |-> <<0, 0>>,
     out_mask                     |-> NoMask]

\* The objects reachable from every instance: the class attribute
\* BAND_NAME_MAPPING and the two providers the caller creates.
SharedObjects(bridge, clean) ==
    [BAND_NAME_MAPPING        |-> Polymer_BAND_NAME_MAPPING,
     bridge_points_handler    |-> bridge,
     clean_water_mask_handler |-> clean]

\* No instance constructed, no provider created.
FleetAtRest ==
    /\ instances = [i \in Instances |-> NotConstructed]
    /\ shared = SharedObjects(NoBridge, NoCleanWater)
    /\ created = shared

Init ==
    /\ family = "none"
    /\ affine_matrix = <<1, 0, 0, 0, 1, 0>>
    /\ before_transform_image_shape = <<1, 1>>
    /\ transformation_list = <<>>
    /\ region = "general"
    /\ final_shape = <<1, 1>>
    /\ lon = NoGrid
    /\ lat = NoGrid
    /\ bridge_points_handler = NoBridge
    /\ clean_water_mask_handler = NoCleanWater
    /\ crs = "none"
    /\ BuildAtRest
    /\ FleetAtRest
    /\ op = "none"
    /\ args = <<0, 0>>
    /\ status = "none"
    /\ out = <<0, 0>>
    /\ out_mask = NoMask
    /\ calls = <<>>

\* AbstractSentinelImageHandler.__init__, as one step.  The handlers of the
\* model vary either in their geometry, or in the obstruction provider they
\* are given, or in the CRS of their raster.
ConstructSentinel ==
    /\ family = "none"
    /\ \E shape \in Shapes, angles \in AngleLists, reg \in Regions,
          native_crs \in CrsCodes :
         \E M \in AffineMatrices(shape),
            bridge \in {NoBridge} \cup BridgeHandlers(shape) :
            LET tl   == image_transformation_list(angles, shape)
                crop == Sentinel_image_wkt_polygone_subset(M, tl, shape, reg)
            IN  /\ bridge.attached => (angles = <<>> /\ reg = "general")
                /\ native_crs # "EPSG:32620" =>
                      (angles = <<>> /\ reg = "general" /\ ~ bridge.attached)
                /\ crs' = native_crs
                /\ family' = IF crop.empty THEN "failed" ELSE "sentinel"
                /\ status' = IF crop.empty THEN "error" ELSE "ok"
                /\ affine_matrix' = M
                /\ before_transform_image_shape' = shape
                /\ transformation_list' = tl
                /\ region' = reg
                /\ final_shape' = Crop_shape(crop)
                /\ bridge_points_handler' = bridge
    /\ op' = "__init__"
    /\ UNCHANGED <<lon, lat, clean_water_mask_handler, build_vars, fleet_vars,
                   args, out, out_mask, calls>>

\* AbstractPolymerImageHandler.__init__, as one step.
ConstructPolymer ==
    /\ family = "none"
    /\ \E shape \in PolymerShapes, angles \in AngleLists, reg \in Regions,
          defect \in Defects :
         \E at \in Cells(shape) \cup {<<0, 0>>},
            bridge \in {NoBridge} \cup BridgeHandlers(shape),
            clean \in {NoCleanWater} \cup CleanWaterHandlers(shape) :
            LET tl      == image_transformation_list(angles, shape)
                t_shape == TransformedShape(tl, shape)
                t_lon   == apply_image_transformation_list(
                               tl, LoadedLon(shape, defect, at))
                t_lat   == apply_image_transformation_list(
                               tl, LoadedLat(shape, defect, at))
                sub     == Polymer_image_wkt_polygone_subset(t_lon, t_lat, t_shape, reg)
            IN  /\ (bridge.attached \/ clean.attached) =>
                      (angles = <<>> /\ reg = "general" /\ defect = "none")
                /\ shape = <<0, 0>> =>
                      (/\ angles = <<>> /\ reg = "general" /\ defect = "none"
                       /\ ~ bridge.attached /\ ~ clean.attached)
                /\ defect \in {"none", "allnan"} => at = <<0, 0>>
                /\ defect = "dup" => at # <<0, 0>>
                /\ family' = IF sub.ok THEN "polymer" ELSE "failed"
                /\ status' = IF sub.ok THEN "ok" ELSE "error"
                /\ before_transform_image_shape' = shape
                /\ transformation_list' = tl
                /\ region' = reg
                /\ final_shape' = IF sub.ok THEN Crop_shape(sub.crop) ELSE <<1, 1>>
                /\ lon' = IF sub.ok THEN Crop_band(sub.crop, t_lon) ELSE NoGrid
                /\ lat' = IF sub.ok THEN Crop_band(sub.crop, t_lat) ELSE NoGrid
                /\ bridge_points_handler' = bridge
                /\ clean_water_mask_handler' = clean
    /\ op' = "__init__"
    /\ UNCHANGED <<affine_matrix, crs, build_vars, fleet_vars,
                   args, out, out_mask, calls>>

\* AbstractSentinelImageHandler.index_function
IndexFunction ==
    /\ family = "sentinel"
    /\ status = "none"
    /\ \E longitude \in Longitudes, latitude \in Latitudes :
         LET p == project_epsg4326_to_epsg_32620(longitude, latitude)
         IN  /\ args' = p
             /\ out' = index_function(affine_matrix, p[1], p[2])
    /\ op' = "index_function"
    /\ status' = "ok"
    /\ calls' = <<>>
    /\ UNCHANGED <<handler_vars, out_mask>>

\* AbstractSentinelImageHandler.get_row_col_index_from_longitide_latitude
SentinelGetRowColIndex ==
    /\ family = "sentinel"
    /\ status = "none"
    /\ \E longitude \in Longitudes, latitude \in Latitudes :
         LET r == Sentinel_get_row_col_index(
                     affine_matrix, transformation_list, crop_now,
                     longitude, latitude)
         IN  /\ args' = <<longitude, latitude>>
             /\ out' = r.idx
             /\ calls' = r.calls
    /\ op' = "get_row_col_index_from_longitide_latitude"
    /\ status' = "ok"
    /\ UNCHANGED <<handler_vars, out_mask>>

\* The indices a caller asks about: the final band and one index around it.
QueryRows == -1 .. MaxRows

QueryCols == -1 .. MaxCols

\* AbstractSentinelImageHandler.get_longitude_latitude_from_row_col_index
SentinelGetLongitudeLatitude ==
    /\ family = "sentinel"
    /\ status = "none"
    /\ \E row_index \in QueryRows, col_index \in QueryCols :
         LET r == Sentinel_get_longitude_latitude(
                     affine_matrix, transformation_list, crop_now,
                     row_index, col_index)
         IN  /\ args' = <<row_index, col_index>>
             /\ out' = r.lonlat
             /\ calls' = r.calls
    /\ op' = "get_longitude_latitude_from_row_col_index"
    /\ status' = "ok"
    /\ UNCHANGED <<handler_vars, out_mask>>

\* AbstractPolymerImageHandler.get_row_col_index_from_longitide_latitude
PolymerGetRowColIndex ==
    /\ family = "polymer"
    /\ status = "none"
    /\ \E longitude \in GridLongitudes, latitude \in GridLatitudes :
         LET r == nearest_grid_index(lon, lat, final_shape, longitude, latitude)
         IN  /\ args' = <<longitude, latitude>>
             /\ out' = r.idx
             /\ status' = IF r.ok THEN "ok" ELSE "error"
    /\ op' = "get_row_col_index_from_longitide_latitude"
    /\ calls' = <<>>
    /\ UNCHANGED <<handler_vars, out_mask>>

\* self.lon[row_index, col_index]: numpy wraps a negative index and raises
\* IndexError outside [-n, n).
numpy_getitem(band, shape, row_index, col_index) ==
    IF \/ row_index < -shape[1] \/ row_index >= shape[1]
       \/ col_index < -shape[2] \/ col_index >= shape[2]
    THEN [ok |-> FALSE, value |-> 0]
    ELSE [ok |-> TRUE,
          value |-> band[<<Wrap(row_index, shape[1]), Wrap(col_index, shape[2])>>]]

\* AbstractPolymerImageHandler.get_longitude_latitude_from_row_col_index
PolymerGetLongitudeLatitude ==
    /\ family = "polymer"
    /\ status = "none"
    /\ \E row_index \in QueryRows, col_index \in QueryCols :
         LET x == numpy_getitem(lon, final_shape, row_index, col_index)
             y == numpy_getitem(lat, final_shape, row_index, col_index)
         IN  /\ args' = <<row_index, col_index>>
             /\ out' = IF x.ok /\ y.ok THEN <<x.value, y.value>> ELSE <<0, 0>>
             /\ status' = IF x.ok /\ y.ok THEN "ok" ELSE "error"
    /\ op' = "get_longitude_latitude_from_row_col_index"
    /\ calls' = <<>>
    /\ UNCHANGED <<handler_vars, out_mask>>

\* get_mask_from_bridge_points_handler, of either family.
GetMaskFromBridgePointsHandler ==
    /\ family \in {"sentinel", "polymer"}
    /\ status = "none"
    /\ LET r == get_mask_from_bridge_points_handler(bridge_points_handler, final_shape)
       IN  /\ status' = r.status
           /\ out_mask' = r.mask
    /\ op' = "get_mask_from_bridge_points_handler"
    /\ UNCHANGED <<handler_vars, args, out, calls>>

\* AbstractPolymerImageHandler.get_water_mask_from_bridge_and_clean_water_mask_handler
GetWaterMask ==
    /\ family = "polymer"
    /\ status = "none"
    /\ LET r == get_water_mask_from_bridge_and_clean_water_mask_handler(
                   bridge_points_handler, clean_water_mask_handler, final_shape)
       IN  /\ status' = r.status
           /\ out_mask' = r.mask
    /\ op' = "get_water_mask_from_bridge_and_clean_water_mask_handler"
    /\ UNCHANGED <<handler_vars, args, out, calls>>

\* The caller takes the result of the last operation; the handler is ready
\* for the next call.
Return ==
    /\ status # "none"
    /\ op' = "none"
    /\ args' = <<0, 0>>
    /\ status' = "none"
    /\ out' = <<0, 0>>
    /\ out_mask' = NoMask
    /\ calls' = <<>>
    /\ UNCHANGED handler_vars

Next ==
    \/ ConstructSentinel
    \/ ConstructPolymer
    \/ IndexFunction
    \/ SentinelGetRowColIndex
    \/ SentinelGetLongitudeLatitude
    \/ PolymerGetRowColIndex
    \/ PolymerGetLongitudeLatitude
    \/ GetMaskFromBridgePointsHandler
    \/ GetWaterMask
    \/ Return

Spec == Init /\ [][Next]_vars

(***************************************************************************)
(* The inside of __init__, statement by statement: the loaders, the loop   *)
(* of _apply_image_transformation_list, the loop of                        *)
(* _apply_image_wkt_polygone_subset and what __init__ does around them.    *)
(***************************************************************************)

\* Bound of the model: the length of a fallback list.
MaxFallback == 2

\* AbstractSentinelImageHandler.BAND_NAME_MAPPING, in the dictionary's order.
Sentinel_BAND_NAME_MAPPING ==
    << [band_name |-> "blue_band",        code |-> "B02"],
       [band_name |-> "green_band",       code |-> "B03"],
       [band_name |-> "red_band",         code |-> "B04"],
       [band_name |-> "nir_band",         code |-> "B08"],
       [band_name |-> "true_color_image", code |-> "TCI"],
       [band_name |-> "cloud_prob",       code |-> "MSK_CLDPRB_20m"],
       [band_name |-> "scene_clf",        code |-> "SCL_20m"] >>

\* BAND_NAME_MAPPING.keys()
BandNames(mapping) == { mapping[i].band_name : i \in DOMAIN mapping }

\* The position of a band name in BAND_NAME_MAPPING.
BandPosition(mapping, band_name) ==
    CHOOSE i \in DOMAIN mapping : mapping[i].band_name = band_name

\* The variable codes a netCDF product is expected to carry, and the band
\* codes a zip archive is expected to carry.
NcCodes == { Polymer_BAND_NAME_MAPPING[i].codes[1] :
                i \in DOMAIN Polymer_BAND_NAME_MAPPING }

ZipCodes == { Sentinel_BAND_NAME_MAPPING[i].code :
                i \in DOMAIN Sentinel_BAND_NAME_MAPPING }

\* A product that carries the codes of S: nc_data.variables, or the files of
\* the archive, as a dictionary from the code to the variable or file.
Product(kind, S) ==
    [kind |-> kind, variables |-> [code \in S |-> [name |-> code]]]

\* The products read: complete, or with one code missing.
NcFiles ==
    { Product("nc", S) : S \in {NcCodes} \cup { NcCodes \ {c} : c \in NcCodes } }

ZipFiles ==
    { Product("zip", S) :
        S \in {ZipCodes} \cup { ZipCodes \ {c} : c \in ZipCodes } }

\* No product read.
NoProduct == Product("none", {})

\* A variant of get_items_with_list_fallback that keeps the last code of the
\* list found in the dictionary.
RECURSIVE get_items_with_last_match(_, _)
get_items_with_last_match(d, get_list) ==
    IF get_list = <<>>
    THEN [ok |-> FALSE, value |-> [name |-> "none"]]
    ELSE LET n == Len(get_list)
         IN  IF get_list[n] \in DOMAIN d
             THEN [ok |-> TRUE, value |-> d[get_list[n]]]
             ELSE get_items_with_last_match(d, SubSeq(get_list, 1, n - 1))

\* get_items_with_list_fallback(d, get_list): the value of the first element
\* of get_list that d has; ValueError when it has none.  (The values of
\* nc_data.variables are variables, never None.)
RECURSIVE get_items_with_list_fallback(_, _)
get_items_with_list_fallback(d, get_list) ==
    IF get_list = <<>>
    THEN [ok |-> FALSE, value |-> [name |-> "none"]]
    ELSE IF Head(get_list) \in DOMAIN d
    THEN [ok |-> TRUE, value |-> d[Head(get_list)]]
    ELSE get_items_with_list_fallback(d, Tail(get_list))

\* The data of a spectral band: each pixel holds the number of the band and
\* its own raw index, so that a pixel can be followed through the pipeline.
BandData(k, shape) ==
    [cell \in Cells(shape) |-> 100 * k + 10 * cell[1] + cell[2]]

\* An entry of a data dictionary: the band, the code it was loaded from and
\* the transformations applied to it so far.
Entry(data, variable, applied) ==
    [data |-> data, variable |-> variable, applied |-> applied]

\* _load_nc_data_dict: for each band name of self.BAND_NAME_MAPPING the
\* variable found by get_items_with_list_fallback, read as an array.
load_nc_data_dict(mapping, variables, shape, defect, at) ==
    LET found   == [i \in DOMAIN mapping |->
                      get_items_with_list_fallback(variables, mapping[i].codes)]
        array(i) == CASE found[i].value.name = "longitude" ->
                            LoadedLon(shape, defect, at)
                      [] found[i].value.name = "latitude" ->
                            LoadedLat(shape, defect, at)
                      [] OTHER -> BandData(i, shape)
    IN  IF \E i \in DOMAIN mapping : ~ found[i].ok
        THEN [ok |-> FALSE, data_dict |-> NoDict]
        ELSE [ok |-> TRUE,
              data_dict |->
                 [band_name \in BandNames(mapping) |->
                     LET i == BandPosition(mapping, band_name)
                     IN  Entry(array(i), found[i].value.name, <<>>)]]

\* _load_nc_data_dict of a handler whose class holds the mapping as written.
Polymer_load_nc_data_dict(variables, shape, defect, at) ==
    load_nc_data_dict(Polymer_BAND_NAME_MAPPING, variables, shape, defect, at)

\* _get_data_from_zip_file: for each band name the first file whose name
\* holds the band code; [0] raises IndexError when there is none.  The two
\* 20 m bands are rescaled to the shape of the 10 m bands.
Sentinel_get_data_from_zip_file(files, shape) ==
    LET mapping == Sentinel_BAND_NAME_MAPPING
    IN  IF \E i \in DOMAIN mapping : mapping[i].code \notin DOMAIN files
        THEN [ok |-> FALSE, data_dict |-> NoDict]
        ELSE [ok |-> TRUE,
              data_dict |->
                 [band_name \in BandNames(mapping) |->
                     LET i == BandPosition(mapping, band_name)
                     IN  Entry(BandData(i, shape),
                               files[mapping[i].code].name, <<>>)]]

\* dict.pop(key), as the dictionary it leaves, and dict[key] = value.
Pop(data_dict, key) ==
    [k \in DOMAIN data_dict \ {key} |-> data_dict[k]]

Put(data_dict, key, value) ==
    [k \in DOMAIN data_dict \cup {key} |->
        IF k = key THEN value ELSE data_dict[k]]

\* numpy's band.shape (rows, columns).
Shape(band) ==
    IF DOMAIN band = {} THEN <<0, 0>>
    ELSE <<1 + Max({ cell[1] : cell \in DOMAIN band }),
           1 + Max({ cell[2] : cell \in DOMAIN band })>>

\* The loop "for transformation in self._image_transformation_list()" of
\* _apply_image_transformation_list, from position i on.
RECURSIVE BandLoop(_, _, _)
BandLoop(tl, i, entry) ==
    IF i > Len(tl) THEN entry
    ELSE BandLoop(tl, i + 1,
            Entry(RotateImage_band(tl[i], entry.data), entry.variable,
                  Append(entry.applied, <<"transformation", i>>)))

\* A variant of the loop body of _apply_image_transformation_list that reads
\* the band and leaves it in loaded_data_dict.
transformation_list_iteration_without_pop(tl, band_name, loaded, transformed) ==
    [loaded      |-> loaded,
     transformed |-> Put(transformed, band_name,
                         BandLoop(tl, 1, loaded[band_name]))]

\* The loop body of _apply_image_transformation_list: the band is popped
\* from loaded_data_dict, transformed and put in transformed_data_dict.
transformation_list_iteration(tl, band_name, loaded, transformed) ==
    [loaded      |-> Pop(loaded, band_name),
     transformed |-> Put(transformed, band_name,
                         BandLoop(tl, 1, loaded[band_name]))]

\* A variant of the loop body of _apply_image_wkt_polygone_subset that
\* leaves the lon band as it is.
polygone_subset_iteration_lon_uncropped(crop, band_name, transformed, subset) ==
    LET e == transformed[band_name]
    IN  [transformed |-> Pop(transformed, band_name),
         subset      |-> Put(subset, band_name,
                            IF band_name = "lon" THEN e
                            ELSE Entry(Crop_band(crop, e.data), e.variable,
                                       Append(e.applied, <<"crop", 0>>)))]

\* The loop body of _apply_image_wkt_polygone_subset: the band is popped
\* from transformed_data_dict, cropped and put in polygone_subset_data_dict.
polygone_subset_iteration(crop, band_name, transformed, subset) ==
    LET e == transformed[band_name]
    IN  [transformed |-> Pop(transformed, band_name),
         subset      |-> Put(subset, band_name,
                            Entry(Crop_band(crop, e.data), e.variable,
                                  Append(e.applied, <<"crop", 0>>)))]

\* BAND_NAME_MAPPING of the class of the handler under construction.
BAND_NAME_MAPPING ==
    IF family = "sentinel" THEN Sentinel_BAND_NAME_MAPPING
                           ELSE Polymer_BAND_NAME_MAPPING

\* The variables the statements of __init__ leave alone.
outside_build == <<bridge_points_handler, clean_water_mask_handler,
                   fleet_vars, args, out, out_mask, calls>>

\* AbstractPolymerImageHandler.__init__, up to the assignment of
\* _before_transform_image_shape: the product is read.  The products of the
\* model lack a variable or vary in their geometry.
LoadNcDataDict ==
    /\ pc = <<"idle", 0>>
    /\ family = "none"
    /\ status = "none"
    /\ \E shape \in PolymerShapes, angles \in AngleLists, reg \in Regions,
          defect \in Defects, product \in NcFiles :
         \E at \in Cells(shape) \cup {<<0, 0>>} :
            LET r == Polymer_load_nc_data_dict(product.variables, shape, defect, at)
            IN  /\ DOMAIN product.variables # NcCodes =>
                      (/\ shape = <<1, 1>> /\ angles = <<>>
                       /\ reg = "general" /\ defect = "none")
                /\ shape = <<0, 0>> =>
                      (angles = <<>> /\ reg = "general" /\ defect = "none")
                /\ defect \in {"none", "allnan"} => at = <<0, 0>>
                /\ defect = "dup" => at # <<0, 0>>
                /\ source' = product
                /\ loaded_data_dict' = r.data_dict
                /\ before_transform_image_shape' = shape
                /\ transformation_list' = image_transformation_list(angles, shape)
                /\ region' = reg
                /\ family' = IF r.ok THEN "polymer" ELSE "failed"
                /\ pc' = IF r.ok THEN <<"transform", 1>> ELSE <<"done", 0>>
                /\ status' = IF r.ok THEN "none" ELSE "error"
    /\ op' = "__init__"
    /\ UNCHANGED <<affine_matrix, crs, final_shape, lon, lat,
                   transformed_data_dict, subset_transformed_data_dict,
                   transformed_lon, transformed_lat, polygon_indices,
                   outside_build>>

\* AbstractSentinelImageHandler.__init__, up to the assignment of
\* _affine_matrix: the archive is read.
GetDataFromZipFile ==
    /\ pc = <<"idle", 0>>
    /\ family = "none"
    /\ status = "none"
    /\ \E shape \in Shapes, angles \in AngleLists, reg \in Regions,
          native_crs \in CrsCodes, product \in ZipFiles :
         \E M \in AffineMatrices(shape) :
            LET r == Sentinel_get_data_from_zip_file(product.variables, shape)
            IN  /\ DOMAIN product.variables # ZipCodes =>
                      (/\ shape = <<1, 1>> /\ angles = <<>>
                       /\ reg = "general" /\ native_crs = "EPSG:32620")
                /\ source' = product
                /\ loaded_data_dict' = r.data_dict
                /\ before_transform_image_shape' = shape
                /\ transformation_list' = image_transformation_list(angles, shape)
                /\ region' = reg
                /\ crs' = native_crs
                /\ affine_matrix' = M
                /\ family' = IF r.ok THEN "sentinel" ELSE "failed"
                /\ pc' = IF r.ok THEN <<"transform", 1>> ELSE <<"done", 0>>
                /\ status' = IF r.ok THEN "none" ELSE "error"
    /\ op' = "__init__"
    /\ UNCHANGED <<final_shape, lon, lat,
                   transformed_data_dict, subset_transformed_data_dict,
                   transformed_lon, transformed_lat, polygon_indices,
                   outside_build>>

\* The dictionaries and the fallback lists get_items_with_list_fallback is
\* called with directly.
FallbackCodes == {"Rw665", "Rw842", "Rnir"}

FallbackLists == UNION { [1..n -> FallbackCodes] : n \in 0..MaxFallback }

\* AbstractPolymerImageHandler.get_items_with_list_fallback, a static method.
GetItemsWithListFallback ==
    /\ pc = <<"idle", 0>>
    /\ family = "none"
    /\ status = "none"
    /\ \E S \in SUBSET FallbackCodes, get_list \in FallbackLists :
         LET d == Product("nc", S).variables
             r == get_items_with_list_fallback(d, get_list)
         IN  /\ args' = <<d, get_list>>
             /\ out' = r.value
             /\ status' = IF r.ok THEN "ok" ELSE "error"
    /\ op' = "get_items_with_list_fallback"
    /\ UNCHANGED <<handler_vars, out_mask, calls>>

\* One iteration of "for band_name in self.BAND_NAME_MAPPING.keys()" in
\* _apply_image_transformation_list (both families).  After the last one the
\* dictionary is returned to __init__.
ApplyImageTransformationList ==
    /\ pc[1] = "transform"
    /\ LET mapping == BAND_NAME_MAPPING
           i       == pc[2]
           r       == transformation_list_iteration(
                          transformation_list, mapping[i].band_name,
                          loaded_data_dict, transformed_data_dict)
       IN  /\ loaded_data_dict' = r.loaded
           /\ transformed_data_dict' = r.transformed
           /\ pc' = IF i < Len(mapping) THEN <<"transform", i + 1>>
                    ELSE IF family = "polymer" THEN <<"keep", 0>>
                    ELSE <<"crop", 1>>
    /\ UNCHANGED <<family, affine_matrix, before_transform_image_shape,
                   transformation_list, region, final_shape, lon, lat, crs,
                   source, subset_transformed_data_dict, transformed_lon,
                   transformed_lat, polygon_indices, op, status, outside_build>>

\* A variant of __init__ that goes on to the crop pass without setting
\* self._transformed_lon and self._transformed_lat.
KeepNoTransformedGrids ==
    /\ pc[1] = "keep"
    /\ pc' = <<"crop", 1>>
    /\ UNCHANGED <<family, affine_matrix, before_transform_image_shape,
                   transformation_list, region, final_shape, lon, lat, crs,
                   source, loaded_data_dict, transformed_data_dict,
                   subset_transformed_data_dict, transformed_lon,
                   transformed_lat, polygon_indices, op, status, outside_build>>

\* AbstractPolymerImageHandler.__init__:
\*     self._transformed_lon = transformed_data_dict["lon"]
\*     self._transformed_lat = transformed_data_dict["lat"]
KeepTransformedGrids ==
    /\ pc[1] = "keep"
    /\ transformed_lon' = [held |-> TRUE, band |-> transformed_data_dict["lon"].data]
    /\ transformed_lat' = [held |-> TRUE, band |-> transformed_data_dict["lat"].data]
    /\ pc' = <<"crop", 1>>
    /\ UNCHANGED <<family, affine_matrix, before_transform_image_shape,
                   transformation_list, region, final_shape, lon, lat, crs,
                   source, loaded_data_dict, transformed_data_dict,
                   subset_transformed_data_dict, polygon_indices,
                   op, status, outside_build>>

\* The vertices of the region's polygon (none for the identity crop).
Vertices(reg) == IF reg = "general" THEN <<>> ELSE POLYGON_DICT[reg]

\* self._image_wkt_polygone_subset() of a Sentinel handler under
\* construction, with the indices its resolver returned for the vertices.
Sentinel_build_polygone_subset ==
    LET crop == Sentinel_image_wkt_polygone_subset(
                    affine_matrix, transformation_list,
                    before_transform_image_shape, region)
    IN  [ok      |-> ~ crop.empty,
         crop    |-> crop,
         indices |-> [i \in DOMAIN Vertices(region) |->
                         Sentinel_index_after_transformation(
                             affine_matrix, transformation_list,
                             Vertices(region)[i][1], Vertices(region)[i][2]).idx]]

\* self._image_wkt_polygone_subset() of a Polymer handler under
\* construction.  Its resolver reads self._transformed_lon and
\* self._transformed_lat: AttributeError when they are not set.
Polymer_build_polygone_subset ==
    LET t_shape == TransformedShape(transformation_list,
                                    before_transform_image_shape)
    IN  IF region # "general" /\ ~ (transformed_lon.held /\ transformed_lat.held)
        THEN [ok |-> FALSE, crop |-> IdentityPolygoneBoundariesImage(t_shape),
              indices |-> <<>>]
        ELSE LET sub == Polymer_image_wkt_polygone_subset(
                            transformed_lon.band, transformed_lat.band,
                            t_shape, region)
             IN  [ok      |-> sub.ok /\ ~ sub.crop.empty,
                  crop    |-> sub.crop,
                  indices |-> IF sub.ok
                              THEN [i \in DOMAIN Vertices(region) |->
                                      nearest_grid_index(
                                          transformed_lon.band,
                                          transformed_lat.band, t_shape,
                                          Vertices(region)[i][1],
                                          Vertices(region)[i][2]).idx]
                              ELSE <<>>]

\* One iteration of "for band_name in self.BAND_NAME_MAPPING.keys()" in
\* _apply_image_wkt_polygone_subset (both families): the crop is built anew,
\* its resolver is called for each vertex, and the band is cropped.  After
\* the last one the Sentinel handler is complete.
ApplyImageWktPolygoneSubset ==
    /\ pc[1] = "crop"
    /\ LET mapping == BAND_NAME_MAPPING
           i       == pc[2]
           sub     == IF family = "sentinel" THEN Sentinel_build_polygone_subset
                                             ELSE Polymer_build_polygone_subset
           r       == polygone_subset_iteration(
                          sub.crop, mapping[i].band_name,
                          transformed_data_dict, subset_transformed_data_dict)
           last    == i = Len(mapping)
       IN  /\ polygon_indices' = sub.indices
           /\ IF sub.ok
              THEN /\ transformed_data_dict' = r.transformed
                   /\ subset_transformed_data_dict' = r.subset
                   /\ pc' = IF ~ last THEN <<"crop", i + 1>>
                            ELSE IF family = "polymer" THEN <<"discard", 0>>
                            ELSE <<"done", 0>>
                   /\ family' = family
                   /\ status' = IF last /\ family = "sentinel" THEN "ok" ELSE status
                   /\ final_shape' = IF last /\ family = "sentinel"
                                     THEN Shape(r.subset["blue_band"].data)
                                     ELSE final_shape
              ELSE /\ pc' = <<"done", 0>>
                   /\ family' = "failed"
                   /\ status' = "error"
                   /\ UNCHANGED <<transformed_data_dict,
                                  subset_transformed_data_dict, final_shape>>
    /\ UNCHANGED <<affine_matrix, before_transform_image_shape,
                   transformation_list, region, lon, lat, crs, source,
                   loaded_data_dict, transformed_lon, transformed_lat,
                   op, outside_build>>

\* AbstractPolymerImageHandler.__init__:
\*     del self._transformed_lon
\*     del self._transformed_lat
DiscardTransformedGrids ==
    /\ pc[1] = "discard"
    /\ transformed_lon' = NotHeld
    /\ transformed_lat' = NotHeld
    /\ pc' = <<"true_color", 0>>
    /\ UNCHANGED <<family, affine_matrix, before_transform_image_shape,
                   transformation_list, region, final_shape, lon, lat, crs,
                   source, loaded_data_dict, transformed_data_dict,
                   subset_transformed_data_dict, polygon_indices,
                   op, status, outside_build>>

\* _get_true_color_image: the red, green and blue bands of the final
\* dictionary, stacked pixel by pixel.
Polymer_get_true_color_image(subset) ==
    [cell \in DOMAIN subset["red_band"].data |->
        <<subset["red_band"].data[cell], subset["green_band"].data[cell],
          subset["blue_band"].data[cell]>>]

\* AbstractPolymerImageHandler.__init__:
\*     self._subset_transformed_data_dict["true_color_image"] = ...
\* The Polymer handler is complete; lon, lat and image_shape read the final
\* dictionary.
SetTrueColorImage ==
    /\ pc[1] = "true_color"
    /\ LET subset == Put(subset_transformed_data_dict, "true_color_image",
                         Entry(Polymer_get_true_color_image(
                                   subset_transformed_data_dict),
                               "none", <<>>))
       IN  /\ subset_transformed_data_dict' = subset
           /\ lon' = subset["lon"].data
           /\ lat' = subset["lat"].data
           /\ final_shape' = Shape(subset["nir_band"].data)
    /\ pc' = <<"done", 0>>
    /\ status' = "ok"
    /\ UNCHANGED <<family, affine_matrix, before_transform_image_shape,
                   transformation_list, region, crs, source, loaded_data_dict,
                   transformed_data_dict, transformed_lon, transformed_lat,
                   polygon_indices, op, outside_build>>

\* The queries of the nearest-grid handler, once it is constructed.
BuiltPolymerGetRowColIndex ==
    pc = <<"done", 0>> /\ PolymerGetRowColIndex

BuiltPolymerGetLongitudeLatitude ==
    pc = <<"done", 0>> /\ PolymerGetLongitudeLatitude

\* AbstractSentinelImageHandler.get_row_col_index_from_longitide_latitude on
\* the handler constructed statement by statement, for the points at the
\* pixel corners of the raster and of a margin around it.
BuiltSentinelGetRowColIndex ==
    /\ pc = <<"done", 0>>
    /\ family = "sentinel"
    /\ status = "none"
    /\ \E longitude \in GridLongitudes, latitude \in GridLatitudes :
         LET r == Sentinel_get_row_col_index(
                     affine_matrix, transformation_list, crop_now,
                     longitude, latitude)
         IN  /\ args' = <<longitude, latitude>>
             /\ out' = r.idx
             /\ calls' = r.calls
    /\ op' = "get_row_col_index_from_longitide_latitude"
    /\ status' = "ok"
    /\ UNCHANGED <<handler_vars, out_mask>>

BuildNext ==
    \/ LoadNcDataDict
    \/ GetDataFromZipFile
    \/ GetItemsWithListFallback
    \/ ApplyImageTransformationList
    \/ KeepTransformedGrids
    \/ ApplyImageWktPolygoneSubset
    \/ DiscardTransformedGrids
    \/ SetTrueColorImage
    \/ BuiltPolymerGetRowColIndex
    \/ BuiltPolymerGetLongitudeLatitude
    \/ BuiltSentinelGetRowColIndex
    \/ Return

\* The construction of one handler, statement by statement, and the queries
\* of the nearest-grid handler constructed.
BuildSpec == Init /\ [][BuildNext]_vars

(***************************************************************************)
(* Several handler instances side by side.  They share the class attribute *)
(* BAND_NAME_MAPPING and the mask providers passed to their constructors;  *)
(* their steps interleave.                                                 *)
(***************************************************************************)

\* The products and configurations of the instances.
FleetShapes == {<<1, 2>>, <<2, 2>>}

FleetConfigurations ==
    { [angles |-> <<>>, region |-> "general"],
      [angles |-> <<-90>>, region |-> "cocagne"] }

\* The coordinates an instance is asked about.
FleetPoints == { <<PixelSize, PixelSize>>, <<3 * PixelSize, 2 * PixelSize>> }

\* The content of the providers the caller creates.
FleetPointsLists == { << <<0, 1>> >> }

FleetWaterMasks == { [cell \in Cells(<<1, 2>>) |-> cell = <<0, 0>>] }

\* The loop of _apply_image_transformation_list over
\* self.BAND_NAME_MAPPING.keys(), from position i on.
RECURSIVE Polymer_apply_image_transformation_list(_, _, _, _, _)
Polymer_apply_image_transformation_list(mapping, tl, i, loaded, transformed) ==
    IF i > Len(mapping)
    THEN [loaded |-> loaded, transformed |-> transformed]
    ELSE LET r == transformation_list_iteration(tl, mapping[i].band_name,
                                                loaded, transformed)
         IN  Polymer_apply_image_transformation_list(
                 mapping, tl, i + 1, r.loaded, r.transformed)

\* The loop of _apply_image_wkt_polygone_subset over
\* self.BAND_NAME_MAPPING.keys(), from position i on.
RECURSIVE Polymer_apply_image_wkt_polygone_subset(_, _, _, _, _)
Polymer_apply_image_wkt_polygone_subset(mapping, crop, i, transformed, subset) ==
    IF i > Len(mapping)
    THEN [transformed |-> transformed, subset |-> subset]
    ELSE LET r == polygone_subset_iteration(crop, mapping[i].band_name,
                                            transformed, subset)
         IN  Polymer_apply_image_wkt_polygone_subset(
                 mapping, crop, i + 1, r.transformed, r.subset)

\* A variant of CleanWaterMaskHandler.get_valid_points_mask that negates
\* self.water_mask in place and returns it.
CleanWaterMaskHandler_call_in_place(self) ==
    LET negated == CleanWaterMaskHandler_get_valid_points_mask(self.water_mask)
    IN  [self |-> [self EXCEPT !.water_mask = negated], result |-> negated]

\* CleanWaterMaskHandler.get_valid_points_mask() as a call on the provider:
\* what it returns and the provider it leaves.
CleanWaterMaskHandler_call(self) ==
    [self   |-> self,
     result |-> CleanWaterMaskHandler_get_valid_points_mask(self.water_mask)]

\* BridgePointsHandler.get_valid_points_mask(shape) as a call on the
\* provider: the mask is a new array, the assignment writes to it.
BridgePointsHandler_call(self, shape) ==
    [self   |-> self,
     result |-> BridgePointsHandler_get_valid_points_mask(self.points_list, shape)]

\* image_shape of an instance: the shape of its final nir band.
Instance_image_shape(self) ==
    Shape(self.subset_transformed_data_dict["nir_band"].data)

\* AbstractPolymerImageHandler.__init__ up to the loaded dictionary: the
\* references to the providers are stored, the product is read.
Instance_load(self, objects, shape, configuration) ==
    LET r == load_nc_data_dict(objects.BAND_NAME_MAPPING,
                               Product("nc", NcCodes).variables,
                               shape, "none", <<0, 0>>)
    IN  [self EXCEPT
            !.pc = IF r.ok THEN "loaded" ELSE "failed",
            !.bridge_points_handler =
                IF objects.bridge_points_handler.attached THEN "shared" ELSE "None",
            !.clean_water_mask_handler =
                IF objects.clean_water_mask_handler.attached THEN "shared" ELSE "None",
            !.before_transform_image_shape = shape,
            !.transformation_list =
                image_transformation_list(configuration.angles, shape),
            !.region = configuration.region,
            !.loaded_data_dict = r.data_dict,
            !.op = "__init__"]

\* __init__: transformed_data_dict = self._apply_image_transformation_list(...)
Instance_transform(self, objects) ==
    LET r == Polymer_apply_image_transformation_list(
                 objects.BAND_NAME_MAPPING, self.transformation_list, 1,
                 self.loaded_data_dict, NoDict)
    IN  [self EXCEPT !.pc = "transformed",
                     !.loaded_data_dict = r.loaded,
                     !.transformed_data_dict = r.transformed]

\* __init__ from self._transformed_lon = ... to the true colour image: the
\* crop pass between the assignment and the deletion of the transformed
\* grids, then the true colour image.
Instance_subset(self, objects) ==
    LET t_shape == TransformedShape(self.transformation_list,
                                    self.before_transform_image_shape)
        sub == Polymer_image_wkt_polygone_subset(
                   self.transformed_data_dict["lon"].data,
                   self.transformed_data_dict["lat"].data, t_shape, self.region)
        r   == Polymer_apply_image_wkt_polygone_subset(
                   objects.BAND_NAME_MAPPING, sub.crop, 1,
                   self.transformed_data_dict, NoDict)
    IN  IF sub.ok /\ ~ sub.crop.empty
        THEN [self EXCEPT
                 !.pc = "done",
                 !.status = "ok",
                 !.transformed_data_dict = r.transformed,
                 !.subset_transformed_data_dict =
                     Put(r.subset, "true_color_image",
                         Entry(Polymer_get_true_color_image(r.subset),
                               "none", <<>>))]
        ELSE [self EXCEPT !.pc = "failed", !.status = "error"]

\* The provider an instance's reference leads to.
Deref(reference, provider, none) ==
    IF reference = "shared" THEN provider ELSE none

\* get_row_col_index_from_longitide_latitude of an instance.
Instance_get_row_col_index(self, longitude, latitude) ==
    LET r == nearest_grid_index(self.subset_transformed_data_dict["lon"].data,
                                self.subset_transformed_data_dict["lat"].data,
                                Instance_image_shape(self), longitude, latitude)
    IN  [self EXCEPT !.op = "get_row_col_index_from_longitide_latitude",
                     !.args = <<longitude, latitude>>,
                     !.status = IF r.ok THEN "ok" ELSE "error",
                     !.out = r.idx,
                     !.out_mask = NoMask]

\* get_mask_from_bridge_points_handler of an instance: the instance and the
\* shared objects it leaves.
Instance_get_mask_from_bridge_points_handler(self, objects) ==
    LET bridge == Deref(self.bridge_points_handler,
                        objects.bridge_points_handler, NoBridge)
        r      == BridgePointsHandler_call(bridge, Instance_image_shape(self))
    IN  IF bridge.attached
        THEN [self |-> [self EXCEPT
                          !.op = "get_mask_from_bridge_points_handler",
                          !.status = IF r.result.ok THEN "ok" ELSE "error",
                          !.args = <<0, 0>>,
                          !.out = <<0, 0>>,
                          !.out_mask = r.result.mask],
              objects |-> [objects EXCEPT !.bridge_points_handler = r.self]]
        ELSE [self |-> [self EXCEPT
                          !.op = "get_mask_from_bridge_points_handler",
                          !.status = "absent",
                          !.args = <<0, 0>>,
                          !.out = <<0, 0>>,
                          !.out_mask = NoMask],
              objects |-> objects]

\* get_mask_from_clean_water_mask_handler of an instance.
Instance_get_mask_from_clean_water_mask_handler(self, objects) ==
    LET clean == Deref(self.clean_water_mask_handler,
                       objects.clean_water_mask_handler, NoCleanWater)
        r     == CleanWaterMaskHandler_call(clean)
    IN  IF clean.attached
        THEN [self |-> [self EXCEPT
                          !.op = "get_mask_from_clean_water_mask_handler",
                          !.status = "ok",
                          !.args = <<0, 0>>,
                          !.out = <<0, 0>>,
                          !.out_mask = r.result],
              objects |-> [objects EXCEPT !.clean_water_mask_handler = r.self]]
        ELSE [self |-> [self EXCEPT
                          !.op = "get_mask_from_clean_water_mask_handler",
                          !.status = "absent",
                          !.args = <<0, 0>>,
                          !.out = <<0, 0>>,
                          !.out_mask = NoMask],
              objects |-> objects]

\* get_water_mask_from_bridge_and_clean_water_mask_handler of an instance
\* whose bad-water mask has the shape of its bands.
Instance_get_water_mask(self, objects) ==
    LET bridge == Deref(self.bridge_points_handler,
                        objects.bridge_points_handler, NoBridge)
        clean  == Deref(self.clean_water_mask_handler,
                        objects.clean_water_mask_handler, NoCleanWater)
        shape  == Instance_image_shape(self)
        b      == BridgePointsHandler_call(bridge, shape)
        w      == CleanWaterMaskHandler_call(clean)
        name   == "get_water_mask_from_bridge_and_clean_water_mask_handler"
    IN  IF bridge.attached /\ clean.attached
        THEN [self |-> [self EXCEPT
                          !.op = name,
                          !.status = IF b.result.ok THEN "ok" ELSE "error",
                          !.args = <<0, 0>>,
                          !.out = <<0, 0>>,
                          !.out_mask =
                              IF b.result.ok
                              THEN [cell \in Cells(shape) |->
                                      b.result.mask[cell] /\ ~ w.result[cell]]
                              ELSE NoMask],
              objects |-> [objects EXCEPT
                             !.bridge_points_handler = b.self,
                             !.clean_water_mask_handler = w.self]]
        ELSE [self |-> [self EXCEPT !.op = name, !.status = "absent",
                                    !.args = <<0, 0>>,
                                    !.out = <<0, 0>>, !.out_mask = NoMask],
              objects |-> objects]

\* The variables of the single handler, which the instances leave alone.
single_vars == <<family, affine_matrix, before_transform_image_shape,
                 transformation_list, region, final_shape, lon, lat,
                 bridge_points_handler, clean_water_mask_handler, crs,
                 build_vars, call_vars>>

\* BridgePointsHandler.__init__: the caller creates the obstruction provider.
CreateBridgePointsHandler ==
    /\ ~ shared.bridge_points_handler.attached
    /\ \E points_list \in FleetPointsLists :
          shared' = [shared EXCEPT !.bridge_points_handler =
                        [attached |-> TRUE, points_list |-> points_list]]
    /\ created' = shared'
    /\ UNCHANGED <<instances, single_vars>>

\* CleanWaterMaskHandler.__init__: the caller creates the bad-water provider.
CreateCleanWaterMaskHandler ==
    /\ ~ shared.clean_water_mask_handler.attached
    /\ \E water_mask \in FleetWaterMasks :
          shared' = [shared EXCEPT !.clean_water_mask_handler =
                        [attached |-> TRUE, water_mask |-> water_mask]]
    /\ created' = shared'
    /\ UNCHANGED <<instances, single_vars>>

\* The steps of the construction of instance i.
InstanceLoad(i) ==
    /\ instances[i].pc = "new"
    /\ \E shape \in FleetShapes, configuration \in FleetConfigurations :
          instances' = [instances EXCEPT
                          ![i] = Instance_load(@, shared, shape, configuration)]
    /\ UNCHANGED <<shared, created, single_vars>>

InstanceTransform(i) ==
    /\ instances[i].pc = "loaded"
    /\ instances' = [instances EXCEPT ![i] = Instance_transform(@, shared)]
    /\ UNCHANGED <<shared, created, single_vars>>

InstanceSubset(i) ==
    /\ instances[i].pc = "transformed"
    /\ instances' = [instances EXCEPT ![i] = Instance_subset(@, shared)]
    /\ UNCHANGED <<shared, created, single_vars>>

\* The queries of the constructed instance i.
InstanceGetRowColIndex(i) ==
    /\ instances[i].pc = "done"
    /\ \E point \in FleetPoints :
          instances' = [instances EXCEPT
                          ![i] = Instance_get_row_col_index(@, point[1], point[2])]
    /\ UNCHANGED <<shared, created, single_vars>>

InstanceGetMaskFromBridgePointsHandler(i) ==
    /\ instances[i].pc = "done"
    /\ LET r == Instance_get_mask_from_bridge_points_handler(instances[i], shared)
       IN  /\ instances' = [instances EXCEPT ![i] = r.self]
           /\ shared' = r.objects
    /\ UNCHANGED <<created, single_vars>>

InstanceGetMaskFromCleanWaterMaskHandler(i) ==
    /\ instances[i].pc = "done"
    /\ LET r == Instance_get_mask_from_clean_water_mask_handler(instances[i], shared)
       IN  /\ instances' = [instances EXCEPT ![i] = r.self]
           /\ shared' = r.objects
    /\ UNCHANGED <<created, single_vars>>

InstanceGetWaterMask(i) ==
    /\ instances[i].pc = "done"
    /\ Deref(instances[i].clean_water_mask_handler,
             shared.clean_water_mask_handler, NoCleanWater).attached =>
          DOMAIN shared.clean_water_mask_handler.water_mask
              = Cells(Instance_image_shape(instances[i]))
    /\ LET r == Instance_get_water_mask(instances[i], shared)
       IN  /\ instances' = [instances EXCEPT ![i] = r.self]
           /\ shared' = r.objects
    /\ UNCHANGED <<created, single_vars>>

FleetNext ==
    \/ CreateBridgePointsHandler
    \/ CreateCleanWaterMaskHandler
    \/ \E i \in Instances : InstanceLoad(i)
    \/ \E i \in Instances : InstanceTransform(i)
    \/ \E i \in Instances : InstanceSubset(i)
    \/ \E i \in Instances : InstanceGetRowColIndex(i)
    \/ \E i \in Instances : InstanceGetMaskFromBridgePointsHandler(i)
    \/ \E i \in Instances : InstanceGetMaskFromCleanWaterMaskHandler(i)
    \/ \E i \in Instances : InstanceGetWaterMask(i)

\* Two handler instances and the providers they share, under every
\* interleaving of their constructions and queries.
FleetSpec == Init /\ [][FleetNext]_vars

(***************************************************************************)
(* Properties.                                                             *)
(***************************************************************************)

SentinelForwardQuery ==
    family = "sentinel" /\ op = "get_row_col_index_from_longitide_latitude"

SentinelInverseQuery ==
    family = "sentinel" /\ op = "get_longitude_latitude_from_row_col_index"

\* The inverse maps of a list applied in reverse list order, Tn first.
RECURSIVE InverseInReverseOrder(_, _)
InverseInReverseOrder(tl, idx) ==
    IF tl = <<>> THEN idx
    ELSE InverseInReverseOrder(SubSeq(tl, 1, Len(tl) - 1),
                               RotateImage_inverse(tl[Len(tl)], idx))

\* The forward maps of a list applied in list order, T1 first.
RECURSIVE ForwardInListOrder(_, _)
ForwardInListOrder(tl, idx) ==
    IF tl = <<>> THEN idx
    ELSE ForwardInListOrder(Tail(tl), RotateImage_forward(Head(tl), idx))

\* C1: the Sentinel handler's pixel -> geo query applies the crop's inverse
\* map first, then the inverse maps of T1..Tn in reverse list order (Tn
\* first, T1 last), then the resolver's inverse; so the coordinate returned
\* for an index of the final band is the one of the raw index
\* T1^-1(..Tn^-1(C^-1(row, col))).
C1_InverseAppliesReverseListOrder ==
    (SentinelInverseQuery /\ args \in Cells(final_shape)) =>
        LET raw == InverseInReverseOrder(transformation_list,
                                         Crop_inverse(crop_now, args))
            p   == inverse_index_function(affine_matrix, raw[1], raw[2])
        IN  out = project_epsg_32620_to_epsg4326(p[1], p[2])

\* C2: the Sentinel handler's geo -> pixel query resolves the raw index with
\* index_function, then applies the forward maps of T1..Tn in list order,
\* then the crop's forward map, last.
C2_ForwardAppliesListOrderThenCrop ==
    SentinelForwardQuery =>
        LET n   == Len(transformation_list)
            p   == project_epsg4326_to_epsg_32620(args[1], args[2])
            raw == index_function(affine_matrix, p[1], p[2])
        IN  /\ calls = << <<"index_function", 0>> >>
                       \o [i \in 1..n |-> <<"map_index_forward", i>>]
                       \o << <<"crop_forward", 0>> >>
            /\ out = Crop_forward(crop_now,
                                  ForwardInListOrder(transformation_list, raw))

\* C2 witness: a forward query on a handler with two different rotations and
\* a polygon crop that does not start at the band's origin.
C2_Witness ==
    /\ SentinelForwardQuery
    /\ Len(transformation_list) = 2
    /\ transformation_list[1].angle # transformation_list[2].angle
    /\ region # "general"
    /\ crop_now.row_min + crop_now.col_min > 0

\* C3: with one rotation by a multiple of 90 degrees followed by a polygon
\* crop, the inverse index chain applied to the result of the forward index
\* chain gives back the raw pre-transform index.
C3_PipelineRoundTrip ==
    (/\ SentinelForwardQuery
     /\ Len(transformation_list) = 1
     /\ region # "general") =>
        LET p   == project_epsg4326_to_epsg_32620(args[1], args[2])
            raw == index_function(affine_matrix, p[1], p[2])
        IN  Sentinel_raw_index(transformation_list, crop_now, out[1], out[2]).idx = raw

\* C3 witness: the Morell configuration (a rotation of -90 degrees, a polygon
\* crop with an offset), with a forward result that differs from the raw index.
C3_Witness ==
    /\ SentinelForwardQuery
    /\ Len(transformation_list) = 1
    /\ transformation_list[1].angle = -90
    /\ region # "general"
    /\ crop_now.row_min + crop_now.col_min > 0
    /\ LET p == project_epsg4326_to_epsg_32620(args[1], args[2])
       IN  out # index_function(affine_matrix, p[1], p[2])

\* The numerators and the denominator of the exact inverse-affine image
\* (row, col) of a projected point.
ExactRowNum(M, x, y) == M[1] * (y - M[6]) - M[4] * (x - M[3])

ExactColNum(M, x, y) == M[5] * (x - M[3]) - M[2] * (y - M[6])

Det(M) == M[1] * M[5] - M[2] * M[4]

\* k is an integer nearest to num / den.
IsNearestInteger(k, num, den) == 2 * Abs(k * den - num) <= Abs(den)

\* C4: index_function returns the row and the column obtained by rounding
\* the inverse-affine image of (x, y) to the nearest integer.
C4_IndexFunctionRoundsToNearest ==
    (family = "sentinel" /\ op = "index_function") =>
        /\ IsNearestInteger(out[1], ExactRowNum(affine_matrix, args[1], args[2]),
                            Det(affine_matrix))
        /\ IsNearestInteger(out[2], ExactColNum(affine_matrix, args[1], args[2]),
                            Det(affine_matrix))

\* 0 <= num / den < n
InHalfOpenRange(num, den, n) ==
    IF den > 0 THEN 0 <= num /\ num < n * den
               ELSE num <= 0 /\ n * den < num

\* The projected point lies inside the raster.
InsideRaster(M, shape, x, y) ==
    /\ InHalfOpenRange(ExactRowNum(M, x, y), Det(M), shape[1])
    /\ InHalfOpenRange(ExactColNum(M, x, y), Det(M), shape[2])

\* C5: for a projected point inside the raster, index_function followed by
\* inverse_index_function yields a point within half a pixel of the original
\* along each axis.
C5_AffineRoundTripWithinHalfPixel ==
    (/\ family = "sentinel"
     /\ op = "index_function"
     /\ InsideRaster(affine_matrix, before_transform_image_shape, args[1], args[2])) =>
        LET q == inverse_index_function(affine_matrix, out[1], out[2])
        IN  /\ 2 * Abs(q[1] - args[1]) <= Abs(affine_matrix[1])
            /\ 2 * Abs(q[2] - args[2]) <= Abs(affine_matrix[5])

PolymerForwardQuery ==
    family = "polymer" /\ op = "get_row_col_index_from_longitide_latitude"

\* The squared distance from the query to a cell of the final grid that has
\* coordinates.
SquaredDistance(cell) ==
    (args[1] - lon[cell]) * (args[1] - lon[cell])
        + (args[2] - lat[cell]) * (args[2] - lat[cell])

\* The cells of the final grid that have coordinates.
ValidCells ==
    { cell \in Cells(final_shape) : lon[cell] # NaN /\ lat[cell] # NaN }

\* C6: on a non-degenerate grid (at least one cell, not every cell nan) the
\* nearest-grid query returns a cell at minimal squared distance from the
\* query, and among the cells at that distance the one with the smallest
\* row, then the smallest column.
C6_NearestGridMinimalWithTieBreak ==
    (PolymerForwardQuery /\ ValidCells # {}) =>
        /\ status = "ok"
        /\ out \in ValidCells
        /\ \A cell \in ValidCells :
              \/ SquaredDistance(out) < SquaredDistance(cell)
              \/ /\ SquaredDistance(out) = SquaredDistance(cell)
                 /\ \/ out[1] < cell[1]
                    \/ out[1] = cell[1] /\ out[2] <= cell[2]

\* On a final grid without nan the nearest-grid query returns the cell at
\* minimal squared distance that comes first in row-major order.
NearestGridOnGridWithoutNaN ==
    (PolymerForwardQuery /\ ValidCells = Cells(final_shape)) =>
        /\ status = "ok"
        /\ out \in ValidCells
        /\ \A cell \in ValidCells :
              \/ SquaredDistance(out) < SquaredDistance(cell)
              \/ /\ SquaredDistance(out) = SquaredDistance(cell)
                 /\ \/ out[1] < cell[1]
                    \/ out[1] = cell[1] /\ out[2] <= cell[2]

\* A query on a grid without nan that is at the same distance from cells of
\* two rows.
NearestGridTie ==
    /\ PolymerForwardQuery
    /\ ValidCells = Cells(final_shape)
    /\ \E cell \in ValidCells :
          /\ cell[1] > out[1]
          /\ SquaredDistance(cell) = SquaredDistance(out)

WaterMaskQuery ==
    /\ family = "polymer"
    /\ op = "get_water_mask_from_bridge_and_clean_water_mask_handler"

\* C7: with both providers attached the composed mask is, pixel by pixel,
\* (the obstruction provider's mask) AND NOT (the bad-water provider's
\* mask), each being what the provider's get_valid_points_mask returns.
C7_ComposedMaskIsObstructionAndNotBadWater ==
    (/\ WaterMaskQuery
     /\ bridge_points_handler.attached
     /\ clean_water_mask_handler.attached) =>
        LET obstruction == BridgePointsHandler_get_valid_points_mask(
                               bridge_points_handler.points_list, final_shape)
            bad_water   == CleanWaterMaskHandler_get_valid_points_mask(
                               clean_water_mask_handler.water_mask)
        IN  IF obstruction.ok
            THEN /\ status = "ok"
                 /\ DOMAIN out_mask = Cells(final_shape)
                 /\ \A cell \in Cells(final_shape) :
                       out_mask[cell] = (obstruction.mask[cell] /\ ~ bad_water[cell])
            ELSE status = "error"

\* C7 witness: obstruction mask [T, F] and bad-water mask [F, T] composed
\* to [T, F].
C7_Witness ==
    /\ WaterMaskQuery
    /\ status = "ok"
    /\ final_shape = <<1, 2>>
    /\ bridge_points_handler.attached
    /\ clean_water_mask_handler.attached
    /\ BridgePointsHandler_get_valid_points_mask(
           bridge_points_handler.points_list, final_shape).mask
         = [cell \in Cells(<<1, 2>>) |-> cell = <<0, 0>>]
    /\ CleanWaterMaskHandler_get_valid_points_mask(
           clean_water_mask_handler.water_mask)
         = [cell \in Cells(<<1, 2>>) |-> cell = <<0, 1>>]
    /\ out_mask = [cell \in Cells(<<1, 2>>) |-> cell = <<0, 0>>]

\* C8: when the obstruction provider or the bad-water provider is not
\* attached, the composed mask is reported absent: no mask is returned.
C8_ComposedMaskAbsentUnlessBothAttached ==
    (/\ WaterMaskQuery
     /\ ~ (bridge_points_handler.attached /\ clean_water_mask_handler.attached)) =>
        status = "absent" /\ out_mask = NoMask

\* C8 witness: a composed-mask query on a handler that has the obstruction
\* provider only, with a usable point list.
C8_Witness ==
    /\ WaterMaskQuery
    /\ status = "absent"
    /\ bridge_points_handler.attached
    /\ ~ clean_water_mask_handler.attached
    /\ BridgePointsHandler_get_valid_points_mask(
           bridge_points_handler.points_list, final_shape).ok

\* C9: the obstruction provider's mask has the requested shape, is false at
\* every pixel of the point list and true at every other pixel, whatever the
\* point list.
C9_ObstructionMaskFalseExactlyAtPoints ==
    (/\ op = "get_mask_from_bridge_points_handler"
     /\ bridge_points_handler.attached) =>
        /\ status = "ok"
        /\ DOMAIN out_mask = Cells(final_shape)
        /\ \A cell \in Cells(final_shape) :
              out_mask[cell] =
                  ~ \E i \in DOMAIN bridge_points_handler.points_list :
                        bridge_points_handler.points_list[i] = cell

\* C10: a pixel -> geo query with a row or a column outside the final band's
\* extent ends in an explicit failure, in both handler families.
C10_InverseQueryOutOfBoundsFails ==
    (/\ op = "get_longitude_latitude_from_row_col_index"
     /\ args \notin Cells(final_shape)) =>
        status = "error"

\* The positions of a fallback list whose code the dictionary has.
PresentPositions(d, get_list) ==
    { j \in DOMAIN get_list : get_list[j] \in DOMAIN d }

\* The product read lacks every code of some band of the mapping.
MissingBand ==
    \/ /\ source.kind = "nc"
       /\ \E i \in DOMAIN Polymer_BAND_NAME_MAPPING :
             PresentPositions(source.variables,
                              Polymer_BAND_NAME_MAPPING[i].codes) = {}
    \/ /\ source.kind = "zip"
       /\ \E i \in DOMAIN Sentinel_BAND_NAME_MAPPING :
             Sentinel_BAND_NAME_MAPPING[i].code \notin DOMAIN source.variables

\* C11: when the product read lacks an expected band (netCDF family: none of
\* the fallback codes of a band name is present) construction fails with an
\* error and no handler is produced; when at least one code of a fallback
\* list is present, the value loaded is the one of the first code of the
\* list, in list order, that is present.
C11_MissingBandFailsConstruction ==
    /\ MissingBand =>
          /\ family = "failed"
          /\ pc = <<"done", 0>>
          /\ op = "__init__" => status = "error"
          /\ subset_transformed_data_dict = NoDict
    /\ (source.kind = "nc" /\ ~ MissingBand /\ pc = <<"transform", 1>>) =>
          \A i \in DOMAIN Polymer_BAND_NAME_MAPPING :
             LET codes == Polymer_BAND_NAME_MAPPING[i].codes
                 first == Min(PresentPositions(source.variables, codes))
             IN  loaded_data_dict[Polymer_BAND_NAME_MAPPING[i].band_name].variable
                     = codes[first]
    /\ op = "get_items_with_list_fallback" =>
          LET present == PresentPositions(args[1], args[2])
          IN  IF present = {}
              THEN status = "error"
              ELSE /\ status = "ok"
                   /\ out = args[1][args[2][Min(present)]]

\* C11 witness: the construction of a Polymer handler from a product without
\* the variable of the nir band has failed.
C11_Witness ==
    /\ op = "__init__"
    /\ status = "error"
    /\ family = "failed"
    /\ source.kind = "nc"
    /\ "Rw842" \notin DOMAIN source.variables

\* A direct call with a list of two codes whose first code is missing: the
\* second one is loaded.
FallbackTaken ==
    /\ op = "get_items_with_list_fallback"
    /\ status = "ok"
    /\ Len(args[2]) = 2
    /\ args[2][1] \notin DOMAIN args[1]
    /\ out = args[1][args[2][2]]

\* The call variables after Return.
NoCall == <<"none", <<0, 0>>, "none", <<0, 0>>, NoMask, <<>>>>

\* C12: a nearest-grid query against a degenerate grid (every cell nan, or
\* no cell at all) ends in a failure of that query and returns no index; the
\* failed query leaves the handler as it was, and once it has returned the
\* handler and its caller are in the state they were in before the query,
\* so that later queries behave as before.
C12_DegenerateGridQueryFails ==
    /\ []((PolymerForwardQuery /\ ValidCells = {}) => status = "error")
    /\ [][(op = "none" /\ PolymerForwardQuery' /\ status' = "error") =>
             handler_vars' = handler_vars]_vars
    /\ [][(PolymerForwardQuery /\ status = "error" /\ op' = "none") =>
             (handler_vars' = handler_vars /\ call_vars' = NoCall)]_vars

\* C12 witness: a query on a grid that has cells, all of them nan, has failed.
C12_Witness ==
    /\ PolymerForwardQuery
    /\ status = "error"
    /\ Cells(final_shape) # {}
    /\ \A cell \in Cells(final_shape) : lon[cell] = NaN /\ lat[cell] = NaN

\* A query on a grid without cells has failed.
EmptyGridQueryFailed ==
    /\ PolymerForwardQuery
    /\ status = "error"
    /\ final_shape = <<0, 0>>

\* C13: the affine resolver's geo -> pixel query fails when the CRS recorded
\* from the raster at load time is not EPSG:32620; it returns no index
\* computed with the reprojection of another zone.
C13_ForwardQueryFailsOnOtherCrs ==
    (SentinelForwardQuery /\ crs # "EPSG:32620") => status = "error"

\* __init__ has returned a handler.
Constructed ==
    pc = <<"done", 0>> /\ family \in {"sentinel", "polymer"}

\* C14: after the construction of a handler, whose raw bands shared one
\* shape, every band of the final band mapping has the same number of rows
\* and columns (the one image_shape reports), for every transformation list
\* and every crop; so had the transformed bands before the crop.
C14_FinalBandsShareShape ==
    /\ Constructed =>
          \A a \in DOMAIN subset_transformed_data_dict :
             /\ Shape(subset_transformed_data_dict[a].data) = final_shape
             /\ DOMAIN subset_transformed_data_dict[a].data = Cells(final_shape)
    /\ pc = <<"crop", 1>> =>
          \A a \in DOMAIN transformed_data_dict :
             DOMAIN transformed_data_dict[a].data =
                 Cells(TransformedShape(transformation_list,
                                        before_transform_image_shape))

\* C14 witness: a handler constructed with a rotation that swaps rows and
\* columns and a polygon crop that removes part of the band.
C14_Witness ==
    /\ Constructed
    /\ before_transform_image_shape = <<1, 2>>
    /\ Len(transformation_list) = 1
    /\ transformation_list[1].angle = -90
    /\ region # "general"
    /\ final_shape = <<1, 1>>
    /\ DOMAIN subset_transformed_data_dict = BandNames(BAND_NAME_MAPPING)

\* The crop's resolver has been called for the vertices of a polygon, and
\* what it read is still there.
ResolverCalled ==
    /\ pc[1] \in {"crop", "discard"}
    /\ family \in {"sentinel", "polymer"}
    /\ polygon_indices # <<>>

\* A band before the transformation list, recovered from the transformed
\* band: the pixel at raw index cell is the one the list moved to
\* Tn(..T1(cell)).
RawGrid(t_band) ==
    [cell \in Cells(before_transform_image_shape) |->
        t_band[ForwardInListOrder(transformation_list, cell)]]

\* The pre-transformation index of a vertex: index_function of its
\* projection (Sentinel), the nearest cell of the grids as loaded (Polymer).
RawIndex(vertex) ==
    IF family = "sentinel"
    THEN LET p == project_epsg4326_to_epsg_32620(vertex[1], vertex[2])
         IN  index_function(affine_matrix, p[1], p[2])
    ELSE nearest_grid_index(RawGrid(transformed_lon.band),
                            RawGrid(transformed_lat.band),
                            before_transform_image_shape,
                            vertex[1], vertex[2]).idx

VertexDistance(vertex, cell) ==
    (vertex[1] - transformed_lon.band[cell]) * (vertex[1] - transformed_lon.band[cell])
        + (vertex[2] - transformed_lat.band[cell]) * (vertex[2] - transformed_lat.band[cell])

PolymerResolverNotRaw ==
    /\ ResolverCalled
    /\ family = "polymer"
    /\ \E i \in DOMAIN polygon_indices :
          polygon_indices[i] # RawIndex(Vertices(region)[i])

\* What a band has received once it went through the whole pipeline: T1..Tn
\* in list order, then the crop.
PipelineInOrder ==
    [i \in 1 .. Len(transformation_list) |-> <<"transformation", i>>]
        \o << <<"crop", 0>> >>

\* The crop pass has finished.
CropPassFinished ==
    /\ family \in {"sentinel", "polymer"}
    /\ pc[1] \in {"discard", "true_color", "done"}

\* C16: during construction every band named in BAND_NAME_MAPPING receives
\* the transformations T1..Tn in list order, and the crop after all of them
\* (no band is cropped before every band is transformed); the final band
\* mapping holds each of those band names; and once the crop pass has
\* finished neither the loaded nor the transformed mapping holds any of them.
C16_BandsTransformedInOrderThenCropped ==
    /\ pc = <<"crop", 1>> =>
          \A i \in DOMAIN BAND_NAME_MAPPING :
             LET e == transformed_data_dict[BAND_NAME_MAPPING[i].band_name]
             IN  /\ e.applied = SubSeq(PipelineInOrder, 1, Len(transformation_list))
                 /\ BAND_NAME_MAPPING[i].band_name \notin {"lon", "lat"} =>
                       \A cell \in DOMAIN e.data :
                          e.data[cell] =
                              BandData(i, before_transform_image_shape)[
                                  InverseInReverseOrder(transformation_list, cell)]
    /\ subset_transformed_data_dict # NoDict => loaded_data_dict = NoDict
    /\ \A band_name \in DOMAIN subset_transformed_data_dict :
          band_name \in BandNames(BAND_NAME_MAPPING) =>
             subset_transformed_data_dict[band_name].applied = PipelineInOrder
    /\ CropPassFinished =>
          /\ BandNames(BAND_NAME_MAPPING) \subseteq DOMAIN subset_transformed_data_dict
          /\ DOMAIN loaded_data_dict \cap BandNames(BAND_NAME_MAPPING) = {}
          /\ DOMAIN transformed_data_dict \cap BandNames(BAND_NAME_MAPPING) = {}

\* C16 witness: a handler constructed with two different rotations and a
\* polygon crop.
C16_Witness ==
    /\ Constructed
    /\ Len(transformation_list) = 2
    /\ transformation_list[1].angle # transformation_list[2].angle
    /\ region # "general"
    /\ BandNames(BAND_NAME_MAPPING) \subseteq DOMAIN subset_transformed_data_dict

PolymerInverseQuery ==
    family = "polymer" /\ op = "get_longitude_latitude_from_row_col_index"

\* The query point lies inside the final grid: between the extreme
\* longitudes and between the extreme latitudes of its cells.
InsideGrid ==
    /\ ValidCells # {}
    /\ \E a, b \in ValidCells : lon[a] <= args[1] /\ args[1] <= lon[b]
    /\ \E a, b \in ValidCells : lat[a] <= args[2] /\ args[2] <= lat[b]

\* The cell has coordinates, and they are those of no other cell of the
\* final grid.
UniqueCoordinates(cell) ==
    /\ cell \in ValidCells
    /\ \A other \in Cells(final_shape) :
          (lon[other] = lon[cell] /\ lat[other] = lat[cell]) => other = cell

\* C17: on the nearest-grid handler, resolving a point inside the final grid
\* and reading the longitude/latitude back at the index returned yields a
\* point no farther from the original than the grid spacing; and for every
\* index (r, c) whose coordinates are unique in the grid, resolving the
\* coordinates read at (r, c) returns (r, c).
C17_NearestGridRoundTrip ==
    /\ (PolymerForwardQuery /\ InsideGrid) =>
          /\ status = "ok"
          /\ LET x == numpy_getitem(lon, final_shape, out[1], out[2])
                 y == numpy_getitem(lat, final_shape, out[1], out[2])
             IN  /\ x.ok /\ y.ok
                 /\ x.value # NaN /\ y.value # NaN
                 /\ (args[1] - x.value) * (args[1] - x.value)
                      + (args[2] - y.value) * (args[2] - y.value)
                        <= GridStep * GridStep
    /\ (/\ PolymerInverseQuery
        /\ args \in Cells(final_shape)
        /\ UniqueCoordinates(args)) =>
          /\ status = "ok"
          /\ nearest_grid_index(lon, lat, final_shape, out[1], out[2])
                = [ok |-> TRUE, idx |-> args]

\* The round trip of C17 on the final grids that hold no nan.
NearestGridRoundTripWithoutNaN ==
    (/\ PolymerForwardQuery \/ PolymerInverseQuery
     /\ ValidCells = Cells(final_shape)) => C17_NearestGridRoundTrip

\* A point strictly between two cells of a grid without nan has been
\* resolved, and a cell with unique coordinates of a grid that repeats the
\* coordinates of another cell has been read.
RoundTripOffGrid ==
    /\ PolymerForwardQuery
    /\ ValidCells = Cells(final_shape)
    /\ InsideGrid
    /\ <<args[1], args[2]>> # <<lon[out], lat[out]>>

RoundTripOnGridWithRepeatedCell ==
    /\ PolymerInverseQuery
    /\ ValidCells = Cells(final_shape)
    /\ args \in Cells(final_shape)
    /\ UniqueCoordinates(args)
    /\ \E a, b \in Cells(final_shape) :
          a # b /\ lon[a] = lon[b] /\ lat[a] = lat[b]

\* C18: in the construction of a nearest-grid handler the transformed
\* (post-T1..Tn, pre-crop) longitude and latitude grids are available at
\* every moment the crop's resolver is invoked, that is during the whole crop
\* pass, also after the pass has popped them from the transformed mapping;
\* after construction the handler holds no pre-transformation grid, and
\* transformed copies of the longitude and latitude grids are what self.lon
\* and self.lat give to later queries.
C18_TransformedGridsHeldWhileCropping ==
    /\ (family = "polymer" /\ pc[1] = "crop") =>
          LET t_cells == Cells(TransformedShape(transformation_list,
                                                before_transform_image_shape))
          IN  /\ transformed_lon.held /\ transformed_lat.held
              /\ DOMAIN transformed_lon.band = t_cells
              /\ DOMAIN transformed_lat.band = t_cells
              /\ "lon" \in DOMAIN transformed_data_dict =>
                    transformed_lon.band = transformed_data_dict["lon"].data
              /\ "lat" \in DOMAIN transformed_data_dict =>
                    transformed_lat.band = transformed_data_dict["lat"].data
    /\ (family = "polymer" /\ pc = <<"done", 0>>) =>
          /\ DOMAIN loaded_data_dict \cap {"lon", "lat"} = {}
          /\ DOMAIN transformed_data_dict \cap {"lon", "lat"} = {}
          /\ subset_transformed_data_dict["lon"].applied = PipelineInOrder
          /\ subset_transformed_data_dict["lat"].applied = PipelineInOrder
          /\ lon = subset_transformed_data_dict["lon"].data
          /\ lat = subset_transformed_data_dict["lat"].data

\* C18 witness: the last iteration of the crop pass of a handler with a
\* rotation and a polygon: the resolver has been called, the transformed
\* mapping no longer holds the longitude grid, the attribute does.
C18_Witness ==
    /\ family = "polymer"
    /\ pc = <<"crop", Len(Polymer_BAND_NAME_MAPPING)>>
    /\ region # "general"
    /\ Len(transformation_list) >= 1
    /\ polygon_indices # <<>>
    /\ "lon" \notin DOMAIN transformed_data_dict
    /\ transformed_lon.held

\* What a handler constructed alone holds, from its own product and
\* configuration and the class's BAND_NAME_MAPPING as written.
AloneLoaded(self) ==
    Polymer_load_nc_data_dict(Product("nc", NcCodes).variables,
                              self.before_transform_image_shape,
                              "none", <<0, 0>>).data_dict

AloneTransformed(self) ==
    [band_name \in BandNames(Polymer_BAND_NAME_MAPPING) |->
        BandLoop(self.transformation_list, 1, AloneLoaded(self)[band_name])]

AloneSubset(self) ==
    LET t     == AloneTransformed(self)
        sub   == Polymer_image_wkt_polygone_subset(
                     t["lon"].data, t["lat"].data,
                     TransformedShape(self.transformation_list,
                                      self.before_transform_image_shape),
                     self.region)
        bands == [band_name \in DOMAIN t |->
                    Entry(Crop_band(sub.crop, t[band_name].data),
                          t[band_name].variable,
                          Append(t[band_name].applied, <<"crop", 0>>))]
    IN  Put(bands, "true_color_image",
            Entry(Polymer_get_true_color_image(bands), "none", <<>>))

\* What a query of a handler constructed alone returns, from the providers
\* as they were created.
AloneResult(self) ==
    LET subset == AloneSubset(self)
        shape  == Shape(subset["nir_band"].data)
        bridge == Deref(self.bridge_points_handler,
                        created.bridge_points_handler, NoBridge)
        clean  == Deref(self.clean_water_mask_handler,
                        created.clean_water_mask_handler, NoCleanWater)
    IN  CASE self.op = "get_row_col_index_from_longitide_latitude" ->
               LET r == nearest_grid_index(subset["lon"].data, subset["lat"].data,
                                           shape, self.args[1], self.args[2])
               IN  [status   |-> IF r.ok THEN "ok" ELSE "error",
                    out      |-> r.idx,
                    out_mask |-> NoMask]
          [] self.op = "get_mask_from_bridge_points_handler" ->
               LET r == get_mask_from_bridge_points_handler(bridge, shape)
               IN  [status |-> r.status, out |-> <<0, 0>>, out_mask |-> r.mask]
          [] self.op = "get_mask_from_clean_water_mask_handler" ->
               IF clean.attached
               THEN [status   |-> "ok",
                     out      |-> <<0, 0>>,
                     out_mask |-> [cell \in DOMAIN clean.water_mask |->
                                     ~ clean.water_mask[cell]]]
               ELSE [status |-> "absent", out |-> <<0, 0>>, out_mask |-> NoMask]
          [] self.op = "get_water_mask_from_bridge_and_clean_water_mask_handler" ->
               LET r == get_water_mask_from_bridge_and_clean_water_mask_handler(
                            bridge, clean, shape)
               IN  [status |-> r.status, out |-> <<0, 0>>, out_mask |-> r.mask]
          [] OTHER ->
               [status |-> "ok", out |-> <<0, 0>>, out_mask |-> NoMask]

\* C19: under every interleaving of the constructions and queries of
\* several handler instances, the objects reachable from more than one of
\* them (the class's BAND_NAME_MAPPING and the providers passed to the
\* constructors) stay as they were created, and what each instance holds
\* and returns is what it would hold and return alone.
C19_InstancesDoNotInterfere ==
    /\ shared = created
    /\ shared.BAND_NAME_MAPPING = Polymer_BAND_NAME_MAPPING
    /\ \A i \in Instances :
          LET self == instances[i]
          IN  /\ self.pc = "loaded" =>
                    self.loaded_data_dict = AloneLoaded(self)
              /\ self.pc = "transformed" =>
                    /\ DOMAIN self.loaded_data_dict = {}
                    /\ self.transformed_data_dict = AloneTransformed(self)
              /\ self.pc = "done" =>
                    /\ DOMAIN self.transformed_data_dict = {}
                    /\ self.subset_transformed_data_dict = AloneSubset(self)
                    /\ [status   |-> self.status,
                        out      |-> self.out,
                        out_mask |-> self.out_mask] = AloneResult(self)

\* C19 witness: two constructed instances of different configurations that
\* hold the same two providers; one has just been asked for the bad-water
\* mask, the other for the composed mask.
C19_Witness ==
    /\ \A i \in Instances :
          /\ instances[i].pc = "done"
          /\ instances[i].bridge_points_handler = "shared"
          /\ instances[i].clean_water_mask_handler = "shared"
    /\ instances[1].region # instances[2].region
    /\ instances[1].op = "get_mask_from_clean_water_mask_handler"
    /\ instances[2].op = "get_water_mask_from_bridge_and_clean_water_mask_handler"
    /\ instances[2].status = "ok"
    /\ \E cell \in DOMAIN instances[2].out_mask : instances[2].out_mask[cell]

\* C20: on a constructed nearest-grid handler whose final grid is not
\* degenerate (it has a cell, and not every cell is nan), the forward query
\* returns for every query point a row and column inside the final band's
\* extent; it is computed from the final cropped grids of
\* _subset_transformed_data_dict, and the pre-crop grids are not held.
C20_QueryIndexInsideFinalExtent ==
    (/\ PolymerForwardQuery
     /\ pc = <<"done", 0>>
     /\ ValidCells # {}) =>
        /\ status = "ok"
        /\ out \in Cells(Shape(subset_transformed_data_dict["nir_band"].data))
        /\ out = nearest_grid_index(
                     subset_transformed_data_dict["lon"].data,
                     subset_transformed_data_dict["lat"].data,
                     final_shape, args[1], args[2]).idx
        /\ ~ transformed_lon.held /\ ~ transformed_lat.held

\* C20 on the final grids that hold no nan.
QueryIndexInsideFinalExtentWithoutNaN ==
    (PolymerForwardQuery /\ ValidCells = Cells(final_shape)) =>
        C20_QueryIndexInsideFinalExtent

\* A point outside the extent of a cropped grid without nan has been
\* resolved to a cell of the final grid.
FarPointResolvedOnCroppedGrid ==
    /\ PolymerForwardQuery
    /\ pc = <<"done", 0>>
    /\ region # "general"
    /\ ValidCells = Cells(final_shape)
    /\ final_shape # TransformedShape(transformation_list,
                                      before_transform_image_shape)
    /\ status = "ok"
    /\ \A cell \in Cells(final_shape) : args[1] > lon[cell] /\ args[2] > lat[cell]

\* The index of the query point after T1..Tn, before the crop.
PostTransformIndex ==
    Sentinel_index_after_transformation(
        affine_matrix, transformation_list, args[1], args[2]).idx

\* The index lies inside the crop's bounding box.
InsideBoundingBox(idx) ==
    /\ crop_now.row_min <= idx[1] /\ idx[1] <= crop_now.row_max
    /\ crop_now.col_min <= idx[2] /\ idx[2] <= crop_now.col_max

\* A band of the affine-based handler after T1..Tn, before the crop.
PreCropBand(band_name) ==
    apply_image_transformation_list(
        transformation_list,
        BandData(BandPosition(Sentinel_BAND_NAME_MAPPING, band_name),
                 before_transform_image_shape))

\* C21: on a constructed affine-based handler, for every query point whose
\* index after T1..Tn lies inside the crop's bounding box, the forward query
\* returns a row in [0, rows) and a column in [0, cols) of the final bands,
\* and every final band holds at that index the pixel its pre-crop band
\* holds at the index after T1..Tn.
C21_IndexInsideBoxDesignatesSamePixel ==
    (/\ SentinelForwardQuery
     /\ pc = <<"done", 0>>
     /\ InsideBoundingBox(PostTransformIndex)) =>
        /\ status = "ok"
        /\ out \in Cells(Shape(subset_transformed_data_dict["blue_band"].data))
        /\ \A band_name \in BandNames(Sentinel_BAND_NAME_MAPPING) :
              /\ out \in DOMAIN subset_transformed_data_dict[band_name].data
              /\ subset_transformed_data_dict[band_name].data[out]
                    = PreCropBand(band_name)[PostTransformIndex]

\* C21 witness: a handler with a rotation and a polygon whose bounding box
\* does not start at the origin of the transformed band; a point inside the
\* box has been resolved, to an index that differs from its pre-crop index.
C21_Witness ==
    /\ SentinelForwardQuery
    /\ pc = <<"done", 0>>
    /\ region # "general"
    /\ Len(transformation_list) >= 1
    /\ InsideBoundingBox(PostTransformIndex)
    /\ <<crop_now.row_min, crop_now.col_min>> # <<0, 0>>
    /\ out # PostTransformIndex
    /\ out \in Cells(final_shape)

\* A point whose index after T1..Tn lies outside the bounding box has been
\* resolved to an index outside the final bands.
OutsideBoxResolvedOutsideExtent ==
    /\ SentinelForwardQuery
    /\ pc = <<"done", 0>>
    /\ ~ InsideBoundingBox(PostTransformIndex)
    /\ out \notin Cells(final_shape)

====
